---- MODULE Spec2Model ----
(***************************************************************************)
(* SnapSort: the queue -> library commit of the index page                 *)
(* (actions.commitFiles, moveQueuedFilesToLibrary), the library path       *)
(* planner (remapFilePaths) and the store operations they call.            *)
(*                                                                         *)
(* Time is counted in whole hours: a capture instant is an integer number  *)
(* of hours since an epoch, a zone is a whole-hour offset, and a calendar  *)
(* day is the instant shifted by the offset, divided by 24.  The strings   *)
(* luxon formats ('yyyy/MM - MMMM/dd', 'yyyyMMdd') are one-to-one images   *)
(* of that day number, so the day number stands for them.                  *)
(* A nullable value is <<>> (null) or <<v>>.                               *)
(***************************************************************************)
EXTENDS Integers, Sequences, FiniteSets, TLC

\* ------------------------------------------------------------------ bounds
MaxFiles == 2       \* files uploaded over a run (queue ids 1..MaxFiles)
MaxCommits == 2     \* commit requests over a run
MaxBatch == 2       \* entries of one request's fileChanges list
NowHours == 100     \* Date.now(), in hours
MaxFaults == 1      \* refusals by the file system, exiftool or the store over a run
MaxPlanFiles == 3   \* files of a batch handed to the path planner on its own
MaxDateProps == 2   \* date-time properties present in one exiftool output
MaxUpload == 2      \* files of one upload request

\* ---------------------------------------------------------------- nullable
Null == <<>>
Some(v) == <<v>>
IsNull(x) == x = <<>>
Val(x) == x[1]

\* ------------------------------------------------------------ array helpers
\* array.filter(removeDuplicatesPredicate): keep the first occurrence of each value
RECURSIVE removeDuplicates(_)
removeDuplicates(s) ==
  IF s = <<>> THEN <<>>
  ELSE LET front == removeDuplicates(SubSeq(s, 1, Len(s) - 1))
           last == s[Len(s)]
       IN IF \E j \in 1..(Len(s) - 1) : s[j] = last THEN front ELSE Append(front, last)

RECURSIVE Flatten(_)
Flatten(ss) == IF ss = <<>> THEN <<>> ELSE Head(ss) \o Flatten(Tail(ss))

\* ------------------------------------------------------------------- zones
\* $lib/iana-tz.json rows (zone, utcOffset.std) used by the model, in hours
ianaTz ==
  << [zone |-> "Asia/Tokyo", std |-> 9], [zone |-> "Asia/Seoul", std |-> 9],
     [zone |-> "Etc/UTC", std |-> 0], [zone |-> "Europe/London", std |-> 0] >>
Zones == {ianaTz[i].zone : i \in 1..Len(ianaTz)}
\* the standard offset of a zone (0 for a zone the table does not list)
ZoneOffset(z) ==
  IF z \in Zones THEN ianaTz[CHOOSE i \in 1..Len(ianaTz) : ianaTz[i].zone = z].std ELSE 0
\* DateTime.local().zoneName of the server process
SystemZone == "Etc/UTC"

\* the calendar day of an instant rendered in a zone
LocalDay(instant, zone) == (instant + ZoneOffset(zone)) \div 24

\* ---------------------------------------------------------------- keywords
\* keywordsTable: a fixed content (keyword management is not part of the commit)
KeywordIds == {1, 2, 3, 4, 5, 6, 7}
KeywordRow(k) ==
  CASE k = 1 -> [keyword |-> "Birthday", category |-> "Album", isFolderLabel |-> TRUE]
    [] k = 2 -> [keyword |-> "Family", category |-> "Group", isFolderLabel |-> TRUE]
    [] k = 3 -> [keyword |-> "Paris", category |-> "Location", isFolderLabel |-> FALSE]
    [] k = 4 -> [keyword |-> "Edit", category |-> "Other", isFolderLabel |-> FALSE]
    [] k = 5 -> [keyword |-> "Rex", category |-> "Animal", isFolderLabel |-> TRUE]
    [] k = 6 -> [keyword |-> "Rome", category |-> "Location", isFolderLabel |-> FALSE]
    [] OTHER -> [keyword |-> "Wedding", category |-> "Album", isFolderLabel |-> FALSE]

KeywordNames(ids) == {KeywordRow(k).keyword : k \in ids}

\* database.keywords.count(ids): ids that exist in keywordsTable
keywordsCount(ids) == Cardinality(ids \cap KeywordIds)

\* database.keywords.countByCategory(categories, ids): one row per category that
\* has at least one matching keyword (GROUP BY), as a set of rows
countByCategory(categories, ids) ==
  LET matching == {k \in KeywordIds : (ids = {} \/ k \in ids) /\ KeywordRow(k).category \in categories}
  IN {[keywordCategory |-> c,
       keywordCount |-> Cardinality({k \in matching : KeywordRow(k).category = c})] :
        c \in {KeywordRow(k).category : k \in matching}}

\* ORDER BY CASE ... END: Album 3, Group 2, others 1 (ascending)
CategoryPriority(category) ==
  IF category = "Album" THEN 3 ELSE IF category = "Group" THEN 2 ELSE 1

\* a set of keyword ids as the sequence ORDER BY yields it (ties in id order)
RECURSIVE SortByPriority(_)
SortByPriority(ids) ==
  IF ids = {} THEN <<>>
  ELSE LET k == CHOOSE x \in ids : \A y \in ids :
                   \/ CategoryPriority(KeywordRow(x).category) < CategoryPriority(KeywordRow(y).category)
                   \/ /\ CategoryPriority(KeywordRow(x).category) = CategoryPriority(KeywordRow(y).category)
                      /\ x <= y
       IN <<k>> \o SortByPriority(ids \ {k})

\* database.keywords.getFolderLabels(subsetKeywordIds): folder-label keyword
\* names in ascending priority; an empty subset means no filter
getFolderLabels(subsetKeywordIds) ==
  LET ids == {k \in KeywordIds : KeywordRow(k).isFolderLabel
                                  /\ (subsetKeywordIds = {} \/ k \in subsetKeywordIds)}
      sorted == SortByPriority(ids)
  IN [i \in 1..Len(sorted) |-> KeywordRow(sorted[i]).keyword]

\* ----------------------------------------------------------- path planner
ImageMimeTypes == {"image/jpeg"}
VideoMimeTypes == {"video/mp4"}
\* mimeType.startsWith('image/')
IsImage(mimeType) == mimeType \in ImageMimeTypes

\* DateTime.fromJSDate(captureDateTime).toFormat('yyyy/MM - MMMM/dd'): the day in
\* the server's zone; a null date formats as "Invalid DateTime" (here <<>>)
SubDirOf(captureDateTime) ==
  IF IsNull(captureDateTime) THEN <<>> ELSE <<LocalDay(Val(captureDateTime), SystemZone)>>

\* sortedFolderLabels.findIndex(label => file.keywords.includes(label)),
\* 1-based, 0 when no label matches
CandidateLabelIdx(file, sortedFolderLabels) ==
  LET hits == {i \in 1..Len(sortedFolderLabels) : sortedFolderLabels[i] \in file.keywords}
  IN IF hits = {} THEN 0 ELSE CHOOSE i \in hits : \A j \in hits : i <= j

\* the forEach over group.files keeping the largest candidate index
FolderLabelIdx(groupFiles, sortedFolderLabels) ==
  LET cands == {CandidateLabelIdx(groupFiles[i], sortedFolderLabels) : i \in DOMAIN groupFiles}
  IN IF cands = {} THEN 0 ELSE CHOOSE i \in cands : \A j \in cands : i >= j

\* the label suffix of a group: <<>> for none, <<label>> for ' - label'
SubDirLabel(groupFiles, sortedFolderLabels) ==
  LET idx == FolderLabelIdx(groupFiles, sortedFolderLabels)
  IN IF idx = 0 THEN <<>> ELSE <<sortedFolderLabels[idx]>>

FileTag(file) ==
  IF "Edit" \in file.keywords THEN "EDT"
  ELSE IF IsImage(file.mimeType) THEN "IMG" ELSE "VID"

\* a planner that never advances tagIndices
TagIndexStuck(groupFiles, j) == 0

\* a planner with one counter for all the tags of a group
TagIndexShared(groupFiles, j) == j - 1

\* tagIndices[fileTag] when the j-th file of the group is named
TagIndex(groupFiles, j) ==
  Cardinality({i \in 1..(j - 1) : FileTag(groupFiles[i]) = FileTag(groupFiles[j])})

\* remapFilePaths(files, newRootPath, sortedFolderLabels); a destination path is
\* the record of the parts path.join assembles under the library root
remapFilePaths(files, sortedFolderLabels) ==
  LET subDirs == removeDuplicates([i \in 1..Len(files) |-> SubDirOf(files[i].captureDateTime)])
      GroupFiles(subDir) == SelectSeq(files, LAMBDA f : SubDirOf(f.captureDateTime) = subDir)
      GroupRemap(subDir) ==
        LET gf == GroupFiles(subDir)
        IN [j \in 1..Len(gf) |->
              [fileId |-> gf[j].id,
               sourcePath |-> gf[j].path,
               destinationPath |->
                 [subDir |-> subDir,
                  label |-> SubDirLabel(gf, sortedFolderLabels),
                  tag |-> FileTag(gf[j]),
                  date |-> SubDirOf(gf[j].captureDateTime),
                  index |-> TagIndex(gf, j),
                  ext |-> gf[j].ext]]]
  IN Flatten([g \in 1..Len(subDirs) |-> GroupRemap(subDirs[g])])

\* ------------------------------------------------------ validation schemas
\* a submitted file change (one element of the request's fileChanges JSON):
\* [id, captureDate, captureTime, timezone, latitude, longitude, altitude, keywordIds]
\* captureDate is a day number, captureTime an hour of that day; keywordIds is
\* the id list after its removeDuplicates transform, as a set.

\* the transform of QueuedFileUpdateSchema: DateTime.fromFormat(date time,
\* {zone: timezone ?? undefined}).toJSDate(); no zone means the server's zone
MergeDateTime(e) ==
  IF IsNull(e.captureDate) \/ IsNull(e.captureTime) THEN Null
  ELSE Some(Val(e.captureDate) * 24 + Val(e.captureTime)
            - ZoneOffset(IF IsNull(e.timezone) THEN SystemZone ELSE Val(e.timezone)))

\* an update schema without the refinement that asks coordinates of a file with
\* a location keyword
QueuedFileUpdateSchemaNoLocationRefine(e, queuedIds) ==
  /\ e.id \in queuedIds
  /\ IF IsNull(e.timezone) THEN TRUE ELSE Val(e.timezone) \in Zones
  /\ IF IsNull(e.latitude) THEN TRUE ELSE Val(e.latitude) >= -90 /\ Val(e.latitude) <= 90
  /\ IF IsNull(e.longitude) THEN TRUE ELSE Val(e.longitude) >= -180 /\ Val(e.longitude) <= 180
  /\ e.keywordIds = {} \/ keywordsCount(e.keywordIds) = Cardinality(e.keywordIds)
  /\ e.keywordIds = {}
       \/ \A row \in countByCategory({"Album", "Location"}, e.keywordIds) : row.keywordCount <= 1
  /\ IsNull(e.captureDate) <=> IsNull(e.captureTime)
  /\ IF IsNull(MergeDateTime(e)) THEN TRUE ELSE Val(MergeDateTime(e)) <= NowHours

\* QueuedFileUpdateSchema, checked against the queue ids currently stored
QueuedFileUpdateSchema(e, queuedIds) ==
  /\ e.id \in queuedIds
  /\ IF IsNull(e.timezone) THEN TRUE ELSE Val(e.timezone) \in Zones
  /\ IF IsNull(e.latitude) THEN TRUE ELSE Val(e.latitude) >= -90 /\ Val(e.latitude) <= 90
  /\ IF IsNull(e.longitude) THEN TRUE ELSE Val(e.longitude) >= -180 /\ Val(e.longitude) <= 180
  /\ e.keywordIds = {} \/ keywordsCount(e.keywordIds) = Cardinality(e.keywordIds)
  /\ e.keywordIds = {}
       \/ \A row \in countByCategory({"Album", "Location"}, e.keywordIds) : row.keywordCount <= 1
  /\ \/ e.keywordIds = {}
     \/ (~IsNull(e.latitude) /\ ~IsNull(e.longitude))
     \/ \A row \in countByCategory({"Location"}, e.keywordIds) : row.keywordCount = 0
  /\ IsNull(e.captureDate) <=> IsNull(e.captureTime)
  /\ IF IsNull(MergeDateTime(e)) THEN TRUE ELSE Val(MergeDateTime(e)) <= NowHours

\* a commit schema without the two refinements that pair the coordinates
CommittableQueuedFileSchemaNoPairing(e, queuedIds) ==
  /\ QueuedFileUpdateSchema(e, queuedIds)
  /\ ~IsNull(MergeDateTime(e))
  /\ ~IsNull(e.timezone)
  /\ \/ IsNull(e.latitude)
     \/ /\ e.keywordIds # {}
        /\ LET result == countByCategory({"Location"}, e.keywordIds)
           IN Cardinality(result) = 1 /\ \A row \in result : row.keywordCount = 1

\* CommittableQueuedFileSchema: the update schema and the library's requirements
CommittableQueuedFileSchema(e, queuedIds) ==
  /\ QueuedFileUpdateSchema(e, queuedIds)
  /\ ~IsNull(MergeDateTime(e))
  /\ ~IsNull(e.timezone)
  /\ IsNull(e.latitude) <=> IsNull(e.longitude)
  /\ ~(IsNull(e.latitude) /\ ~IsNull(e.altitude))
  /\ \/ IsNull(e.latitude)
     \/ /\ e.keywordIds # {}
        /\ LET result == countByCategory({"Location"}, e.keywordIds)
           IN Cardinality(result) = 1 /\ \A row \in result : row.keywordCount = 1

\* the list refinements: at least one file, all ids distinct
ListRefinements(files) ==
  /\ Len(files) > 0
  /\ Len(removeDuplicates([i \in 1..Len(files) |-> files[i].id])) = Len(files)

\* a list that accepts as soon as one element is committable
SomeCommittableListSchema(files, queuedIds) ==
  /\ \E i \in 1..Len(files) : CommittableQueuedFileSchema(files[i], queuedIds)
  /\ ListRefinements(files)

\* CommittableQueuedFileListSchema = z.array(CommittableQueuedFileSchema) + refinements
CommittableQueuedFileListSchema(files, queuedIds) ==
  /\ \A i \in 1..Len(files) : CommittableQueuedFileSchema(files[i], queuedIds)
  /\ ListRefinements(files)

\* DeletedFileListSchema: every id to delete is in the queue
DeletedFileListSchema(ids, queuedIds) ==
  ids = {} \/ Cardinality(ids \cap queuedIds) = Cardinality(ids)

\* the parsed form of a change: the schema's output object
ParsedChange(e) ==
  [id |-> e.id, captureDateTime |-> MergeDateTime(e), timezone |-> e.timezone,
   latitude |-> e.latitude, longitude |-> e.longitude, altitude |-> e.altitude,
   keywordIds |-> e.keywordIds]

\* ---------------------------------------------------------------- the store
VARIABLES
  queue,       \* queuedFilesTable joined with its keyword rows: id -> row
  nextId,      \* the serial of queuedFilesTable
  uploadDir,   \* the paths that exist under FILE_UPLOAD_DIR (files and thumbnails)
  libraryDir,  \* the files under LIBRARY_ROOT_DIR: destination path -> bytes
  library,     \* libraryFilesTable joined with its keyword rows, in insertion order
  ncommits,    \* commit requests received so far
  faults,      \* refusals injected so far
  req,         \* per request: where the handler stands and its local values
  obs,         \* per request: what the handler has been observed to do (history)
  call         \* a call of a library function on its own: its arguments and its result

vars == <<queue, nextId, uploadDir, libraryDir, library, ncommits, faults, req, obs, call>>

\* the commit requests are handled one after the other: one handler at a time
Req == {1}

\* the uploaded file and its thumbnail, as writeFileToDisk / generateFileThumbnail name them
FilePath(n) == [kind |-> "file", n |-> n]
ThumbPath(n) == [kind |-> "thumb", n |-> n]

\* the bytes of an uploaded file are identified by the upload they came from
BytesOf(path) == path.n

\* what getExifMetadata returns for the files uploaded in the model
UploadChoices ==
  { [mimeType |-> "image/jpeg", ext |-> "jpg", captureDateTime |-> Some(10),
     timezone |-> Some("Etc/UTC"), latitude |-> Null, longitude |-> Null,
     altitude |-> Null, keywordIds |-> {}],
    [mimeType |-> "video/mp4", ext |-> "mp4", captureDateTime |-> Null,
     timezone |-> Some("Etc/UTC"), latitude |-> Null, longitude |-> Null,
     altitude |-> Null, keywordIds |-> {}] }

\* the edits a request submits for a file (the id is added by the request)
UpdateChoices ==
  { [captureDate |-> Some(0), captureTime |-> Some(10), timezone |-> Some("Etc/UTC"),
     latitude |-> Null, longitude |-> Null, altitude |-> Null, keywordIds |-> {}],
    [captureDate |-> Null, captureTime |-> Null, timezone |-> Some("Etc/UTC"),
     latitude |-> Null, longitude |-> Null, altitude |-> Null, keywordIds |-> {}],
    [captureDate |-> Some(0), captureTime |-> Some(20), timezone |-> Some("Asia/Tokyo"),
     latitude |-> Some(12), longitude |-> Some(77), altitude |-> Null, keywordIds |-> {1, 3}] }

WithId(u, id) ==
  [id |-> id, captureDate |-> u.captureDate, captureTime |-> u.captureTime,
   timezone |-> u.timezone, latitude |-> u.latitude, longitude |-> u.longitude,
   altitude |-> u.altitude, keywordIds |-> u.keywordIds]

\* the fileChanges lists a request may carry: up to MaxBatch entries, ids in
\* non-decreasing order (the handler does not depend on the order of the list)
FileChangeLists ==
  LET entries == {WithId(u, id) : u \in UpdateChoices, id \in 1..MaxFiles}
      lists == UNION {[1..n -> entries] : n \in 0..MaxBatch}
  IN {l \in lists : \A i \in 1..(Len(l) - 1) : l[i].id <= l[i + 1].id}

\* ---------------------------------------------------------- store operations
\* ORDER BY capture_date_time: NULL first, equal values in id order
OrderedBefore(q, a, b) ==
  IF IsNull(q[a].captureDateTime) \/ IsNull(q[b].captureDateTime)
  THEN IF IsNull(q[a].captureDateTime) = IsNull(q[b].captureDateTime)
       THEN a <= b
       ELSE IsNull(q[a].captureDateTime)
  ELSE IF Val(q[a].captureDateTime) = Val(q[b].captureDateTime)
       THEN a <= b
       ELSE Val(q[a].captureDateTime) < Val(q[b].captureDateTime)

RECURSIVE OrderedIds(_, _)
OrderedIds(q, ids) ==
  IF ids = {} THEN <<>>
  ELSE LET first == CHOOSE a \in ids : \A b \in ids : OrderedBefore(q, a, b)
       IN <<first>> \o OrderedIds(q, ids \ {first})

\* one element of database.queuedFiles.get(): the row with its keyword names
QueuedFileData(q, id) ==
  [id |-> id, path |-> q[id].path, thumbnailPath |-> q[id].thumbnailPath,
   mimeType |-> q[id].mimeType, ext |-> q[id].ext,
   captureDateTime |-> q[id].captureDateTime, timezone |-> q[id].timezone,
   latitude |-> q[id].latitude, longitude |-> q[id].longitude, altitude |-> q[id].altitude,
   keywordIds |-> q[id].keywordIds, keywords |-> KeywordNames(q[id].keywordIds)]

\* database.queuedFiles.get(subsetFileIds): an empty subset means every row
queuedFilesGet(q, subsetFileIds) ==
  LET ids == IF subsetFileIds = {} THEN DOMAIN q ELSE DOMAIN q \cap subsetFileIds
      order == OrderedIds(q, ids)
  IN [i \in 1..Len(order) |-> QueuedFileData(q, order[i])]

\* the row a change leaves behind: .set(file) and the rewritten keyword rows
UpdatedRow(row, c) ==
  [row EXCEPT !.captureDateTime = c.captureDateTime, !.timezone = c.timezone,
              !.latitude = c.latitude, !.longitude = c.longitude,
              !.altitude = c.altitude, !.keywordIds = c.keywordIds]

\* an update whose WHERE id = file.id is lost: every row takes the first change
queuedFilesUpdateAllRows(q, changes) ==
  IF changes = <<>> THEN q ELSE [id \in DOMAIN q |-> UpdatedRow(q[id], changes[1])]

\* database.queuedFiles.update(fileChanges): each change rewrites its own row
queuedFilesUpdate(q, changes) ==
  [id \in DOMAIN q |->
     IF \E i \in 1..Len(changes) : changes[i].id = id
     THEN UpdatedRow(q[id], changes[CHOOSE i \in 1..Len(changes) : changes[i].id = id])
     ELSE q[id]]

\* the insert into queuedFilesToKeywordsTable names a file that is not stored
UpdateHasOrphanPair(q, changes) ==
  \E i \in 1..Len(changes) : changes[i].id \notin DOMAIN q /\ changes[i].keywordIds # {}

\* the paths database.queuedFiles.delete(fileIds) hands to deleteFilesFromDisk
DeletePaths(q, fileIds) ==
  UNION {{q[id].path, q[id].thumbnailPath} : id \in DOMAIN q \cap fileIds}

\* database.queuedFiles.delete(fileIds) in its transaction; `failing` are the
\* paths whose unlink is refused with an error other than ENOENT.  Every unlink
\* is issued; one refusal rejects the transaction and the row deletes roll back.
queuedFilesDelete(q, dir, fileIds, failing) ==
  [queue |-> IF failing = {} THEN [id \in DOMAIN q \ fileIds |-> q[id]] ELSE q,
   uploadDir |-> dir \ (DeletePaths(q, fileIds) \ failing),
   ok |-> failing = {}]

\* inserts that are not undone when a later one fails
libraryFilesAddNoTransaction(lib, rows, failAt) ==
  IF failAt = 0 THEN lib \o rows ELSE lib \o SubSeq(rows, 1, failAt - 1)

\* database.libraryFiles.add(files): every insert in one transaction; failAt is
\* the index of the insert that throws, 0 when none does
libraryFilesAdd(lib, rows, failAt) ==
  IF failAt = 0 THEN lib \o rows ELSE lib

\* libraryFilesTable declares capture_date_time and timezone NOT NULL
ViolatesNotNull(row) == IsNull(row.captureDateTime) \/ IsNull(row.timezone)

\* the LibraryFileInput moveQueuedFilesToLibrary builds for a file; qid records
\* the queue row it was built from (not a column)
NewLibraryFile(file, remaps) ==
  LET remap == remaps[CHOOSE i \in 1..Len(remaps) : remaps[i].fileId = file.id]
  IN [name |-> [tag |-> remap.destinationPath.tag, date |-> remap.destinationPath.date,
                index |-> remap.destinationPath.index, ext |-> remap.destinationPath.ext],
      path |-> [subDir |-> remap.destinationPath.subDir, label |-> remap.destinationPath.label],
      mimeType |-> file.mimeType, captureDateTime |-> file.captureDateTime,
      timezone |-> file.timezone, keywords |-> file.keywords,
      latitude |-> file.latitude, longitude |-> file.longitude, altitude |-> file.altitude,
      qid |-> file.id]

\* the place in the library a LibraryEntry row names
RowDestination(row) ==
  [subDir |-> row.path.subDir, label |-> row.path.label, tag |-> row.name.tag,
   date |-> row.name.date, index |-> row.name.index, ext |-> row.name.ext]

\* ------------------------------------------------- the commit handler's flow
\* a handler that goes on to move the files whatever applyExifMetadata returned
AfterWriteBackIgnored(ok) == "plan"

\* commitFiles: `if (!(await applyExifMetadata(...))) return fail(500, ...)`
AfterWriteBack(ok) == IF ok THEN "plan" ELSE "done"

\* a handler that deletes the queue entries before it records the library rows
StepAfterCleanupFirst(stage) ==
  CASE stage = "plan" -> "copy"
    [] stage = "copy" -> "cleanup"
    [] stage = "cleanup" -> "persist"
    [] OTHER -> "done"

\* moveQueuedFilesToLibrary: remap, copyFilesToDestination, libraryFiles.add,
\* deleteQueuedFiles, each awaited before the next
StepAfter(stage) ==
  CASE stage = "plan" -> "copy"
    [] stage = "copy" -> "persist"
    [] stage = "persist" -> "cleanup"
    [] OTHER -> "done"

\* a handler that reports the failure of the final deletion, as modifyFiles does
CommitResultChecked(deletionOk) == IF deletionOk THEN "ok" ELSE "fail500"

\* moveQueuedFilesToLibrary drops deleteQueuedFiles' boolean; commitFiles then
\* returns its success messages
CommitResult(deletionOk) == "ok"

\* no function is being called on its own
NoCall == [fn |-> "none"]

IdleReq ==
  [pc |-> "idle", parsedFileChanges |-> <<>>, parsedDeletedFiles |-> {},
   committableFiles |-> <<>>, remappedFilePaths |-> <<>>, copied |-> {}, result |-> "none"]

\* what a request has done so far: the stores it changed, the files it wrote
\* back, the rows it inserted
IdleObs ==
  [hadInvalid |-> FALSE, hadValid |-> FALSE, rejected |-> FALSE, wbFailed |-> FALSE, writtenBack |-> {},
   persist |-> "none", inserted |-> 0, cleanupRan |-> FALSE, unlinkFailed |-> {},
   changed |-> {}, copyMissing |-> FALSE, madeDirs |-> {}]

\* the name of a store when a step changed it
Touched(old, new, name) == IF old = new THEN {} ELSE {name}

StoreInit ==
  /\ queue = <<>>
  /\ nextId = 1
  /\ uploadDir = {}
  /\ libraryDir = <<>>
  /\ library = <<>>
  /\ ncommits = 0
  /\ faults = 0
  /\ req = [r \in Req |-> IdleReq]
  /\ obs = [r \in Req |-> IdleObs]

Init ==
  /\ StoreInit
  /\ call = NoCall

\* processUploadedFile, for a file whose metadata extraction succeeds
UploadFile(exifData) ==
  /\ nextId <= MaxFiles
  /\ queue' = [id \in DOMAIN queue \cup {nextId} |->
                 IF id = nextId
                 THEN [path |-> FilePath(nextId), thumbnailPath |-> ThumbPath(nextId),
                       mimeType |-> exifData.mimeType, ext |-> exifData.ext,
                       captureDateTime |-> exifData.captureDateTime,
                       timezone |-> exifData.timezone, latitude |-> exifData.latitude,
                       longitude |-> exifData.longitude, altitude |-> exifData.altitude,
                       keywordIds |-> exifData.keywordIds]
                 ELSE queue[id]]
  /\ uploadDir' = uploadDir \cup {FilePath(nextId), ThumbPath(nextId)}
  /\ nextId' = nextId + 1
  /\ UNCHANGED <<libraryDir, library, ncommits, req, obs, faults, call>>

SomeInvalid(fileChanges) ==
  \E i \in 1..Len(fileChanges) : ~CommittableQueuedFileSchema(fileChanges[i], DOMAIN queue)

SomeValid(fileChanges) ==
  \E i \in 1..Len(fileChanges) : CommittableQueuedFileSchema(fileChanges[i], DOMAIN queue)

\* commitFiles, both parseAsync calls succeed
CommitAccepted(r, fileChanges, deletedFiles) ==
  /\ req[r].pc = "idle"
  /\ ncommits < MaxCommits
  /\ CommittableQueuedFileListSchema(fileChanges, DOMAIN queue)
  /\ DeletedFileListSchema(deletedFiles, DOMAIN queue)
  /\ req' = [req EXCEPT ![r].pc = "deleteRequested",
                        ![r].parsedFileChanges = [i \in 1..Len(fileChanges) |-> ParsedChange(fileChanges[i])],
                        ![r].parsedDeletedFiles = deletedFiles]
  /\ obs' = [obs EXCEPT ![r].hadInvalid = SomeInvalid(fileChanges),
                        ![r].hadValid = SomeValid(fileChanges)]
  /\ ncommits' = ncommits + 1
  /\ UNCHANGED <<queue, nextId, uploadDir, libraryDir, library, faults, call>>

\* commitFiles, a parseAsync call throws a ZodError: fail(400)
CommitRejected(r, fileChanges, deletedFiles) ==
  /\ req[r].pc = "idle"
  /\ ncommits < MaxCommits
  /\ ~(/\ CommittableQueuedFileListSchema(fileChanges, DOMAIN queue)
       /\ DeletedFileListSchema(deletedFiles, DOMAIN queue))
  /\ req' = [req EXCEPT ![r].pc = "done", ![r].result = "fail400"]
  /\ obs' = [obs EXCEPT ![r].hadInvalid = SomeInvalid(fileChanges),
                        ![r].hadValid = SomeValid(fileChanges),
                        ![r].rejected = TRUE]
  /\ ncommits' = ncommits + 1
  /\ UNCHANGED <<queue, nextId, uploadDir, libraryDir, library, faults, call>>

\* deleteQueuedFiles(parsedDeletedFiles); a failed deletion ends the request
DeleteRequested(r, failing) ==
  /\ req[r].pc = "deleteRequested"
  /\ failing \subseteq DeletePaths(queue, req[r].parsedDeletedFiles) \cap uploadDir
  /\ LET res == queuedFilesDelete(queue, uploadDir, req[r].parsedDeletedFiles, failing)
     IN /\ queue' = res.queue
        /\ uploadDir' = res.uploadDir
        /\ req' = IF res.ok THEN [req EXCEPT ![r].pc = "update"]
                  ELSE [req EXCEPT ![r].pc = "done", ![r].result = "fail500"]
        /\ obs' = [obs EXCEPT ![r].changed = @ \cup Touched(queue, res.queue, "queue")
                                                \cup Touched(uploadDir, res.uploadDir, "uploadDir")]
  /\ faults + Cardinality(failing) <= MaxFaults
  /\ faults' = faults + Cardinality(failing)
  /\ UNCHANGED <<nextId, libraryDir, library, ncommits, call>>

\* database.queuedFiles.update(parsedFileChanges), then database.queuedFiles.get()
UpdateAndGet(r) ==
  /\ req[r].pc = "update"
  /\ queue' = queuedFilesUpdate(queue, req[r].parsedFileChanges)
  /\ req' = [req EXCEPT ![r].pc = "writeBack",
                        ![r].committableFiles = queuedFilesGet(queue', {})]
  /\ obs' = [obs EXCEPT ![r].changed = @ \cup Touched(queue, queue', "queue")]
  /\ UNCHANGED <<nextId, uploadDir, libraryDir, library, ncommits, faults, call>>

\* the update's keyword insert is refused for a file deleted by the same request
\* (when the store enforces the foreign key): the transaction rolls back
UpdateThrows(r) ==
  /\ req[r].pc = "update"
  /\ UpdateHasOrphanPair(queue, req[r].parsedFileChanges)
  /\ req' = [req EXCEPT ![r].pc = "done", ![r].result = "fail500"]
  /\ UNCHANGED <<queue, nextId, uploadDir, libraryDir, library, ncommits, obs, faults, call>>

\* applyExifMetadata(committableFiles): false when a file is missing
\* (convertFileToExifData throws) or when the exiftool command fails
WriteBack(r, toolOk) ==
  /\ req[r].pc = "writeBack"
  /\ LET ok == toolOk /\ \A i \in 1..Len(req[r].committableFiles) :
                             req[r].committableFiles[i].path \in uploadDir
     IN /\ req' = [req EXCEPT ![r].pc = AfterWriteBack(ok),
                              ![r].result = IF ok THEN "none" ELSE "fail500"]
        /\ obs' = [obs EXCEPT ![r].wbFailed = ~ok,
                              ![r].writtenBack =
                                 IF ok THEN {req[r].committableFiles[i].id :
                                               i \in 1..Len(req[r].committableFiles)}
                                 ELSE {}]
  /\ toolOk \/ faults < MaxFaults
  /\ faults' = IF toolOk THEN faults ELSE faults + 1
  /\ UNCHANGED <<queue, nextId, uploadDir, libraryDir, library, ncommits, call>>

\* moveQueuedFilesToLibrary: getFolderLabels and remapFilePaths
Plan(r) ==
  /\ req[r].pc = "plan"
  /\ LET files == req[r].committableFiles
         folderLabels == getFolderLabels(UNION {files[i].keywordIds : i \in 1..Len(files)})
     IN req' = [req EXCEPT ![r].pc = StepAfter("plan"),
                           ![r].remappedFilePaths = remapFilePaths(files, folderLabels)]
  /\ UNCHANGED <<queue, nextId, uploadDir, libraryDir, library, ncommits, obs, faults, call>>

\* fs.copyFile for the remaps with the given indices: the destination takes the
\* bytes of the source, replacing what was there
CopiedInto(dir, remaps, indices) ==
  LET dests == {remaps[i].destinationPath : i \in indices}
  IN [p \in DOMAIN dir \cup dests |->
        IF p \in dests
        THEN BytesOf(remaps[CHOOSE i \in indices : remaps[i].destinationPath = p].sourcePath)
        ELSE dir[p]]

\* a copy step that does not look at its sources first
SourcesPresentUnchecked(remaps, dir) == TRUE

\* copyFilesToDestination: fs.stat of every source under Promise.all resolves,
\* and every stat is a file
SourcesPresent(remaps, dir) ==
  \A i \in 1..Len(remaps) : remaps[i].sourcePath \in dir

\* path.dirname(destinationPath)
DestinationDir(destinationPath) ==
  [subDir |-> destinationPath.subDir, label |-> destinationPath.label]

\* copyFilesToDestination, up to its copies: fs.stat of every source (a missing
\* source rejects and the request fails), then fs.mkdir of every destination
\* directory
CopyCheck(r) ==
  /\ req[r].pc = "copy"
  /\ LET remaps == req[r].remappedFilePaths
         allPresent == SourcesPresent(remaps, uploadDir)
     IN /\ req' = IF ~allPresent
                  THEN [req EXCEPT ![r].pc = "done", ![r].result = "fail500"]
                  ELSE [req EXCEPT ![r].pc = IF Len(remaps) = 0 THEN StepAfter("copy")
                                             ELSE "copying"]
        /\ obs' = [obs EXCEPT ![r].copyMissing =
                                 \E i \in 1..Len(remaps) : remaps[i].sourcePath \notin uploadDir,
                              ![r].madeDirs =
                                 IF allPresent
                                 THEN {DestinationDir(remaps[i].destinationPath) :
                                         i \in 1..Len(remaps)}
                                 ELSE {}]
  /\ UNCHANGED <<queue, nextId, uploadDir, libraryDir, library, ncommits, faults, call>>

\* copyFilesToDestination, one fs.copyFile of the Promise.all completing
CopyFile(r, i) ==
  /\ req[r].pc = "copying"
  /\ i \in 1..Len(req[r].remappedFilePaths) \ req[r].copied
  /\ req[r].remappedFilePaths[i].sourcePath \in uploadDir
  /\ libraryDir' = CopiedInto(libraryDir, req[r].remappedFilePaths, {i})
  /\ req' = [req EXCEPT ![r].copied = @ \cup {i},
                        ![r].pc = IF req[r].copied \cup {i} = 1..Len(req[r].remappedFilePaths)
                                  THEN StepAfter("copy") ELSE "copying"]
  /\ obs' = [obs EXCEPT ![r].changed = @ \cup Touched(libraryDir, libraryDir', "libraryDir")]
  /\ UNCHANGED <<queue, nextId, uploadDir, library, ncommits, faults, call>>

\* copyFilesToDestination, one fs.copyFile rejecting: the request fails; the
\* copies of `done` were in flight and still complete
CopyFail(r, done) ==
  /\ req[r].pc = "copying"
  /\ LET remaining == 1..Len(req[r].remappedFilePaths) \ req[r].copied
     IN /\ done \subseteq remaining
        /\ done # remaining
        /\ \A i \in done : req[r].remappedFilePaths[i].sourcePath \in uploadDir
  /\ libraryDir' = CopiedInto(libraryDir, req[r].remappedFilePaths, done)
  /\ req' = [req EXCEPT ![r].copied = @ \cup done, ![r].pc = "done", ![r].result = "fail500"]
  /\ obs' = [obs EXCEPT ![r].changed = @ \cup Touched(libraryDir, libraryDir', "libraryDir")]
  /\ faults < MaxFaults
  /\ faults' = faults + 1
  /\ UNCHANGED <<queue, nextId, uploadDir, library, ncommits, call>>

\* database.libraryFiles.add(newLibraryFiles); dbFailAt is an insert the store
\* refuses for a reason of its own (0: none)
Persist(r, dbFailAt) ==
  /\ req[r].pc = "persist"
  /\ LET files == req[r].committableFiles
         rows == [i \in 1..Len(files) |-> NewLibraryFile(files[i], req[r].remappedFilePaths)]
         violating == {i \in 1..Len(rows) : ViolatesNotNull(rows[i])}
         failAt == IF violating # {} THEN CHOOSE i \in violating : \A j \in violating : i <= j
                   ELSE dbFailAt
     IN /\ dbFailAt \in 0..Len(rows)
        /\ violating # {} => dbFailAt = 0
        /\ library' = libraryFilesAdd(library, rows, failAt)
        /\ req' = IF failAt = 0 THEN [req EXCEPT ![r].pc = StepAfter("persist")]
                  ELSE [req EXCEPT ![r].pc = "done", ![r].result = "fail500"]
        /\ obs' = [obs EXCEPT ![r].persist = IF failAt = 0 THEN "ok" ELSE "failed",
                              ![r].inserted = Len(library') - Len(library),
                              ![r].changed = @ \cup Touched(library, library', "library")]
  /\ dbFailAt = 0 \/ faults < MaxFaults
  /\ faults' = IF dbFailAt = 0 THEN faults ELSE faults + 1
  /\ UNCHANGED <<queue, nextId, uploadDir, libraryDir, ncommits, call>>

\* deleteQueuedFiles(remappedFilePaths.map(fileId)): its boolean is not read
Cleanup(r, failing) ==
  /\ req[r].pc = "cleanup"
  /\ LET remaps == req[r].remappedFilePaths
         fileIds == {remaps[i].fileId : i \in 1..Len(remaps)}
         res == queuedFilesDelete(queue, uploadDir, fileIds, failing)
     IN /\ failing \subseteq DeletePaths(queue, fileIds) \cap uploadDir
        /\ queue' = res.queue
        /\ uploadDir' = res.uploadDir
        /\ req' = [req EXCEPT ![r].pc = StepAfter("cleanup"), ![r].result = CommitResult(res.ok)]
        /\ obs' = [obs EXCEPT ![r].cleanupRan = TRUE, ![r].unlinkFailed = failing,
                              ![r].changed = @ \cup Touched(queue, res.queue, "queue")
                                                \cup Touched(uploadDir, res.uploadDir, "uploadDir")]
  /\ faults + Cardinality(failing) <= MaxFaults
  /\ faults' = faults + Cardinality(failing)
  /\ UNCHANGED <<nextId, libraryDir, library, ncommits, call>>

\* the response is sent; the handler's locals are gone
Return(r) ==
  /\ req[r].pc = "done"
  /\ req' = [req EXCEPT ![r] = IdleReq]
  /\ obs' = [obs EXCEPT ![r] = IdleObs]
  /\ UNCHANGED <<queue, nextId, uploadDir, libraryDir, library, ncommits, faults, call>>

\* uploads at any time; commit requests one after the other
Next ==
  \/ \E exifData \in UploadChoices : UploadFile(exifData)
  \/ \E r \in Req, fc \in FileChangeLists, df \in SUBSET (1..MaxFiles) :
        CommitAccepted(r, fc, df)
  \/ \E r \in Req, fc \in FileChangeLists, df \in SUBSET (1..MaxFiles) :
        CommitRejected(r, fc, df)
  \/ \E r \in Req : \E failing \in SUBSET uploadDir : DeleteRequested(r, failing)
  \/ \E r \in Req : UpdateAndGet(r)
  \/ \E r \in Req : UpdateThrows(r)
  \/ \E r \in Req, toolOk \in BOOLEAN : WriteBack(r, toolOk)
  \/ \E r \in Req : Plan(r)
  \/ \E r \in Req : CopyCheck(r)
  \/ \E r \in Req : \E i \in 1..Len(req[r].remappedFilePaths) : CopyFile(r, i)
  \/ \E r \in Req : \E done \in SUBSET (1..Len(req[r].remappedFilePaths)) : CopyFail(r, done)
  \/ \E r \in Req : \E dbFailAt \in 0..Len(req[r].committableFiles) : Persist(r, dbFailAt)
  \/ \E r \in Req : \E failing \in SUBSET uploadDir : Cleanup(r, failing)
  \/ \E r \in Req : Return(r)

Spec == Init /\ [][Next]_vars

\* ------------------------------------------------ the path planner on its own
\* the files handed to remapFilePaths: type, capture instant, stored zone, keywords
PlanFileShapes ==
  { [mimeType |-> "image/jpeg", ext |-> "jpg", captureDateTime |-> Some(10),
     timezone |-> "Etc/UTC", keywordIds |-> {}],
    [mimeType |-> "image/jpeg", ext |-> "jpg", captureDateTime |-> Some(10),
     timezone |-> "Etc/UTC", keywordIds |-> {2}],
    [mimeType |-> "image/jpeg", ext |-> "jpg", captureDateTime |-> Some(10),
     timezone |-> "Etc/UTC", keywordIds |-> {1}],
    [mimeType |-> "image/jpeg", ext |-> "jpg", captureDateTime |-> Some(10),
     timezone |-> "Etc/UTC", keywordIds |-> {1, 2}],
    [mimeType |-> "video/mp4", ext |-> "mp4", captureDateTime |-> Some(10),
     timezone |-> "Etc/UTC", keywordIds |-> {}],
    [mimeType |-> "image/jpeg", ext |-> "jpg", captureDateTime |-> Some(10),
     timezone |-> "Etc/UTC", keywordIds |-> {4}],
    [mimeType |-> "image/jpeg", ext |-> "jpg", captureDateTime |-> Some(20),
     timezone |-> "Asia/Tokyo", keywordIds |-> {}],
    [mimeType |-> "video/mp4", ext |-> "mp4", captureDateTime |-> Some(30),
     timezone |-> "Etc/UTC", keywordIds |-> {5}] }

\* the i-th file of a batch: its id is its position in the batch
PlanFile(shape, i) ==
  [id |-> i, path |-> FilePath(i), mimeType |-> shape.mimeType, ext |-> shape.ext,
   captureDateTime |-> shape.captureDateTime, timezone |-> shape.timezone,
   keywordIds |-> shape.keywordIds, keywords |-> KeywordNames(shape.keywordIds)]

PlanBatches ==
  UNION {{[i \in 1..n |-> PlanFile(shapes[i], i)] : shapes \in [1..n -> PlanFileShapes]} :
           n \in 0..MaxPlanFiles}

\* the keywords keywordsTable marks as folder labels
FolderLabelNames == {KeywordRow(k).keyword : k \in {x \in KeywordIds : KeywordRow(x).isFolderLabel}}

\* the priority lists: every ordering of every set of folder labels
FolderLabelLists ==
  {l \in UNION {[1..n -> FolderLabelNames] : n \in 0..Cardinality(FolderLabelNames)} :
     \A i, j \in 1..Len(l) : l[i] = l[j] => i = j}

PlannerInit ==
  /\ StoreInit
  /\ \E files \in PlanBatches, labels \in FolderLabelLists :
        call = [fn |-> "remapFilePaths", files |-> files, sortedFolderLabels |-> labels,
                returned |-> FALSE, fileRemap |-> <<>>]

\* remapFilePaths(files, LIBRARY_ROOT_DIR, sortedFolderLabels) returns
RemapFilePaths ==
  /\ call.fn = "remapFilePaths"
  /\ ~call.returned
  /\ call' = [call EXCEPT !.returned = TRUE,
                          !.fileRemap = remapFilePaths(call.files, call.sortedFolderLabels)]
  /\ UNCHANGED <<queue, nextId, uploadDir, libraryDir, library, ncommits, faults, req, obs>>

PlannerNext == RemapFilePaths

PlannerSpec == PlannerInit /\ [][PlannerNext]_vars

\* ------------------------------------------- metadata extraction on its own
\* ExifDateTimeProps, in the order convertExifToFileData searches them
ExifDateTimeProps ==
  << "DateTimeCreated", "Quicktime:CreationDate", "Quicktime:DateTimeOriginal",
     "DateTimeOriginal", "TrackCreateDate", "MediaCreateDate", "CreateDate" >>

ExifOffsetTimeProps == << "OffsetTime", "OffsetTimeOriginal", "OffsetTimeDigitized" >>

\* the position of a property in a property list
PropIndex(props, prop) == CHOOSE i \in 1..Len(props) : props[i] = prop

\* A date-time string of exiftool's output is described by what the code reads
\* of it: its form ("plain": yyyy:MM:dd HH:mm:ss, "offset": the same followed
\* by +HH:MM, "other": anything else), whether its date and time are all
\* zeros, whether they are a date and time of the calendar, the local hour
\* they denote and the offset (hours) of an "offset" string.
RawDateKinds ==
  {"plainOk", "offsetOk", "plainZero", "offsetZero", "plainBad", "offsetBad", "other"}

\* the string of a kind found under the n-th date-time property (the hour
\* differs from property to property, so a result shows where it came from)
RawDate(kind, n) ==
  [form |-> IF kind \in {"plainOk", "plainZero", "plainBad"} THEN "plain"
            ELSE IF kind \in {"offsetOk", "offsetZero", "offsetBad"} THEN "offset"
            ELSE "other",
   zero |-> kind \in {"plainZero", "offsetZero"},
   valid |-> kind \in {"plainOk", "offsetOk"},
   local |-> IF kind \in {"plainOk", "offsetOk", "plainBad", "offsetBad"} THEN 24 + n ELSE 0,
   off |-> IF kind \in {"offsetOk", "offsetBad"} THEN 9 ELSE 0]

\* regexPatterns.exifDateTime / exifDateTimeOffset / exifDateTimeOptionalOffset
exifDateTimeTest(date) == date.form = "plain"
exifDateTimeOffsetTest(date) == date.form = "offset"
exifDateTimeOptionalOffsetTest(date) == date.form \in {"plain", "offset"}

\* the schema of one date-time property: its regex and its all-zero refinement;
\* .catch(undefined) turns a failure into an absent property
DateTimePropSchema(prop, value) ==
  IF IsNull(value) THEN Null
  ELSE LET date == Val(value)
           regexOk == IF prop \in {"DateTimeCreated", "Quicktime:CreationDate",
                                   "Quicktime:DateTimeOriginal"}
                      THEN exifDateTimeOffsetTest(date) ELSE exifDateTimeTest(date)
           \* date !== '0000:00:00 00:00:00', and for DateTimeCreated !date.startsWith(...)
           notZero == IF prop = "DateTimeCreated" THEN ~date.zero
                      ELSE ~(date.zero /\ date.form = "plain")
       IN IF regexOk /\ notZero THEN value ELSE Null

\* the schema of an offset property: regexPatterns.exifTimezoneOffset
OffsetPropSchema(value) ==
  IF IsNull(value) THEN Null ELSE IF Val(value).wellFormed THEN Some(Val(value).hours) ELSE Null

\* z.number().min(lo).max(hi).optional().catch(undefined)
NumberInRange(value, lo, hi) ==
  IF IsNull(value) THEN Null ELSE IF Val(value) >= lo /\ Val(value) <= hi THEN value ELSE Null

\* ExifDataSchema.parse(cmdOutput[0]) in readExifProps: only a MIMEType that is
\* neither image/ nor video/ makes it throw (readExifProps then returns null)
ExifDataSchema(raw) ==
  [ok |-> raw.MIMEType \in ImageMimeTypes \cup VideoMimeTypes,
   data |-> [MIMEType |-> raw.MIMEType,
             dates |-> [prop \in DOMAIN raw.dates |-> DateTimePropSchema(prop, raw.dates[prop])],
             offsets |-> [prop \in DOMAIN raw.offsets |-> OffsetPropSchema(raw.offsets[prop])],
             GPSLatitude |-> NumberInRange(raw.GPSLatitude, -90, 90),
             GPSLongitude |-> NumberInRange(raw.GPSLongitude, -180, 180),
             GPSAltitude |-> raw.GPSAltitude]]

\* a parser that prefers the offset written in the string to the one passed
parseExifDateTimeOwnOffsetFirst(dateTime, offset, zoneName) ==
  IF ~exifDateTimeOptionalOffsetTest(dateTime) THEN Null
  ELSE LET used == IF dateTime.form = "offset" THEN Some(dateTime.off) ELSE offset
       IN IF ~dateTime.valid THEN Null
          ELSE IF IsNull(used) THEN Some(dateTime.local - ZoneOffset(zoneName))
          ELSE Some(dateTime.local - Val(used))

\* parseExifDateTime(dateTime, offset): the instant (hours) or null; a string
\* without offset is read in the zone of the process
parseExifDateTime(dateTime, offset, zoneName) ==
  IF ~exifDateTimeOptionalOffsetTest(dateTime) THEN Null
  ELSE LET used == IF ~IsNull(offset) THEN offset
                   ELSE IF dateTime.form = "offset" THEN Some(dateTime.off) ELSE Null
       IN IF ~dateTime.valid THEN Null
          ELSE IF IsNull(used) THEN Some(dateTime.local - ZoneOffset(zoneName))
          ELSE Some(dateTime.local - Val(used))

\* a resolver that returns the last zone of the table with the given offset
getTimezoneFromOffsetLastMatch(offset, zoneName) ==
  IF IsNull(offset) THEN zoneName
  ELSE LET matches == {i \in 1..Len(ianaTz) : ianaTz[i].std = Val(offset)}
       IN IF zoneName \in Zones /\ ZoneOffset(zoneName) = Val(offset) THEN zoneName
          ELSE IF matches = {} THEN zoneName
          ELSE ianaTz[CHOOSE i \in matches : \A j \in matches : j <= i].zone

\* getTimezoneFromOffset(offset), zoneName being DateTime.local().zoneName
getTimezoneFromOffset(offset, zoneName) ==
  IF IsNull(offset) THEN zoneName
  ELSE LET localRows == {i \in 1..Len(ianaTz) : ianaTz[i].zone = zoneName}
           localStd == IF localRows = {} THEN Null
                       ELSE Some(ianaTz[CHOOSE i \in localRows : \A j \in localRows : i <= j].std)
           matches == {i \in 1..Len(ianaTz) : ianaTz[i].std = Val(offset)}
       IN IF localStd = offset THEN zoneName
          ELSE IF matches = {} THEN zoneName
          ELSE ianaTz[CHOOSE i \in matches : \A j \in matches : i <= j].zone

\* a search that returns the last defined property instead of the first
LastDefined(props, values) ==
  LET defined == {i \in 1..Len(props) : ~IsNull(values[props[i]])}
  IN IF defined = {} THEN 0 ELSE CHOOSE i \in defined : \A j \in defined : j <= i

\* props.find(prop => exifData[prop] !== undefined): 0 when there is none
FirstDefined(props, values) ==
  LET defined == {i \in 1..Len(props) : ~IsNull(values[props[i]])}
  IN IF defined = {} THEN 0 ELSE CHOOSE i \in defined : \A j \in defined : i <= j

\* convertExifToFileData(exifData): capture instant, zone and GPS of the record
convertExifToFileData(exifData, zoneName) ==
  LET dateIdx == FirstDefined(ExifDateTimeProps, exifData.dates)
      offsetIdx == FirstDefined(ExifOffsetTimeProps, exifData.offsets)
      captureOffset == IF dateIdx = 0 \/ offsetIdx = 0 THEN Null
                       ELSE exifData.offsets[ExifOffsetTimeProps[offsetIdx]]
      captureDateTime ==
        IF dateIdx = 0 THEN Null
        ELSE LET dateTimeProp == ExifDateTimeProps[dateIdx]
                 value == Val(exifData.dates[dateTimeProp])
             IN IF \/ IsImage(exifData.MIMEType)
                   \/ dateTimeProp \in {"Quicktime:CreationDate", "Quicktime:DateTimeOriginal"}
                THEN parseExifDateTime(value, captureOffset, zoneName)
                ELSE parseExifDateTime(value, Some(0), zoneName)
  IN [mimeType |-> exifData.MIMEType,
      captureDateTime |-> captureDateTime,
      timezone |-> getTimezoneFromOffset(captureOffset, zoneName),
      latitude |-> exifData.GPSLatitude,
      longitude |-> exifData.GPSLongitude,
      altitude |-> exifData.GPSAltitude]

\* `if (x)` on a number or undefined: undefined and 0 are falsy
Truthy(x) == IF IsNull(x) THEN FALSE ELSE Val(x) # 0

\* convertFileToExifData(fileData), the file being on disk: the document
\* exiftool is given.  dateTime is the local hour in the file's zone, offset the
\* zone's offset, utcDateTime the instant; GPSCoordinates is the list of
\* numbers the string is made of.
convertFileToExifData(fileData) ==
  LET hasDate == ~IsNull(fileData.captureDateTime)
      offset == IF hasDate THEN Some(ZoneOffset(fileData.timezone)) ELSE Null
      dateTime == IF hasDate
                  THEN Some(Val(fileData.captureDateTime) + ZoneOffset(fileData.timezone))
                  ELSE Null
      dateTimeOffset == IF hasDate THEN Some(<<Val(dateTime), Val(offset)>>) ELSE Null
      utcDateTime == fileData.captureDateTime
      latitude == fileData.latitude
      longitude == fileData.longitude
      altitude == fileData.altitude
      both == Truthy(latitude) /\ Truthy(longitude)
      withAltitude == both /\ Truthy(altitude)
      coordinate == IF ~both THEN Null
                    ELSE IF withAltitude THEN Some(<<Val(latitude), Val(longitude), Val(altitude)>>)
                    ELSE Some(<<Val(latitude), Val(longitude)>>)
      latitudeRef == IF ~both THEN Null ELSE IF Val(latitude) >= 0 THEN Some("N") ELSE Some("S")
      longitudeRef == IF ~both THEN Null ELSE IF Val(longitude) >= 0 THEN Some("E") ELSE Some("W")
      altitudeRef == IF ~withAltitude THEN Null
                     ELSE IF Val(altitude) >= 0 THEN Some(0) ELSE Some(1)
      image == IsImage(fileData.mimeType)
  IN [MIMEType |-> fileData.mimeType,
      OffsetTime |-> offset, OffsetTimeOriginal |-> offset, OffsetTimeDigitized |-> offset,
      GPSLatitude |-> latitude, GPSLatitudeRef |-> latitudeRef,
      GPSLongitude |-> longitude, GPSLongitudeRef |-> longitudeRef,
      GPSAltitude |-> altitude, GPSAltitudeRef |-> altitudeRef,
      DateTimeOriginal |-> IF image THEN dateTime ELSE Null,
      DateTimeCreated |-> IF image THEN dateTimeOffset ELSE Null,
      QuicktimeCreationDate |-> IF image THEN Null ELSE dateTimeOffset,
      QuicktimeDateTimeOriginal |-> IF image THEN Null ELSE dateTimeOffset,
      TrackCreateDate |-> IF image THEN Null ELSE utcDateTime,
      MediaCreateDate |-> IF image THEN Null ELSE utcDateTime,
      CreateDate |-> IF image THEN dateTime ELSE utcDateTime,
      GPSCoordinates |-> IF image THEN Null ELSE coordinate]

\* the files handed to convertFileToExifData
WriteBackFiles ==
  {[mimeType |-> mime, captureDateTime |-> dt, timezone |-> tz,
    latitude |-> lat, longitude |-> lon, altitude |-> alt] :
     mime \in ImageMimeTypes \cup VideoMimeTypes,
     dt \in {Null, Some(20)},
     tz \in {"Etc/UTC", "Asia/Tokyo"},
     lat \in {Null, Some(-45), Some(0), Some(12)},
     lon \in {Null, Some(-120), Some(0), Some(77)},
     alt \in {Null, Some(-5), Some(0), Some(100)}}

\* the exiftool outputs of the model: at most MaxDateProps date-time properties
\* are present, each with a string of any kind
RawDateBags ==
  LET props == {ExifDateTimeProps[i] : i \in 1..Len(ExifDateTimeProps)}
  IN UNION {{[prop \in props |->
                IF prop \in present
                THEN Some(RawDate(kinds[prop], PropIndex(ExifDateTimeProps, prop)))
                ELSE Null] : kinds \in [present -> RawDateKinds]} :
              present \in {ps \in SUBSET props : Cardinality(ps) <= MaxDateProps}}

\* offset properties as exiftool prints them: a +HH:MM string or something else
RawOffset(wellFormed, hours) == Some([wellFormed |-> wellFormed, hours |-> hours])

\* the offset and GPS properties that come with the date-time properties
RawRestChoices ==
  { [offsets |-> [prop \in {"OffsetTime", "OffsetTimeOriginal", "OffsetTimeDigitized"} |-> Null],
     GPSLatitude |-> Null, GPSLongitude |-> Null, GPSAltitude |-> Null],
    [offsets |-> [prop \in {"OffsetTime", "OffsetTimeOriginal", "OffsetTimeDigitized"} |->
                    IF prop = "OffsetTime" THEN RawOffset(TRUE, 9) ELSE Null],
     GPSLatitude |-> Some(12), GPSLongitude |-> Some(77), GPSAltitude |-> Some(100)],
    [offsets |-> [prop \in {"OffsetTime", "OffsetTimeOriginal", "OffsetTimeDigitized"} |->
                    IF prop = "OffsetTimeOriginal" THEN RawOffset(TRUE, 0) ELSE Null],
     GPSLatitude |-> Null, GPSLongitude |-> Null, GPSAltitude |-> Some(100)],
    [offsets |-> [prop \in {"OffsetTime", "OffsetTimeOriginal", "OffsetTimeDigitized"} |->
                    IF prop = "OffsetTime" THEN RawOffset(FALSE, 0)
                    ELSE IF prop = "OffsetTimeDigitized" THEN RawOffset(TRUE, 9) ELSE Null],
     GPSLatitude |-> Some(95), GPSLongitude |-> Some(77), GPSAltitude |-> Some(100)],
    [offsets |-> [prop \in {"OffsetTime", "OffsetTimeOriginal", "OffsetTimeDigitized"} |->
                    IF prop = "OffsetTime" THEN RawOffset(TRUE, 5) ELSE Null],
     GPSLatitude |-> Null, GPSLongitude |-> Null, GPSAltitude |-> Null] }

RawMimeTypes == ImageMimeTypes \cup VideoMimeTypes \cup {"application/pdf"}

\* the zones the server process may run in; the last one is not in the table
LocalZones == Zones \cup {"Antarctica/Troll"}

\* the offsets handed to getTimezoneFromOffset: none, or a number of hours
OffsetChoices == {Null, Some(0), Some(9), Some(5)}

ExifInit ==
  /\ StoreInit
  /\ \/ \E dates \in RawDateBags, rest \in RawRestChoices, mime \in RawMimeTypes,
           zoneName \in {"Etc/UTC", "Asia/Seoul"} :
           call = [fn |-> "getExifMetadata", stage |-> "read", zoneName |-> zoneName,
                   raw |-> [MIMEType |-> mime, dates |-> dates, offsets |-> rest.offsets,
                            GPSLatitude |-> rest.GPSLatitude,
                            GPSLongitude |-> rest.GPSLongitude,
                            GPSAltitude |-> rest.GPSAltitude],
                   exifData |-> Null, fileData |-> Null]
     \/ \E offset \in OffsetChoices, zoneName \in LocalZones :
           call = [fn |-> "getTimezoneFromOffset", stage |-> "called", zoneName |-> zoneName,
                   offset |-> offset, zone |-> Null]
     \/ \E fileData \in WriteBackFiles, onDisk \in BOOLEAN :
           call = [fn |-> "convertFileToExifData", stage |-> "called", fileData |-> fileData,
                   onDisk |-> onDisk, exifData |-> Null]

\* readExifProps: null when the path is no file or exiftool gives no result;
\* else the output of exiftool goes through ExifDataSchema.parse, and a
\* ZodError makes getExifMetadata return null too
ReadExifProps ==
  /\ call.fn = "getExifMetadata"
  /\ call.stage = "read"
  /\ \E exiftoolOk \in BOOLEAN :
       LET parsed == ExifDataSchema(call.raw)
       IN call' = IF exiftoolOk /\ parsed.ok
                  THEN [call EXCEPT !.stage = "parsed", !.exifData = Some(parsed.data)]
                  ELSE [call EXCEPT !.stage = "failed"]
  /\ UNCHANGED <<queue, nextId, uploadDir, libraryDir, library, ncommits, faults, req, obs>>

\* getExifMetadata: return convertExifToFileData(exifData)
ConvertExifToFileData ==
  /\ call.fn = "getExifMetadata"
  /\ call.stage = "parsed"
  /\ call' = [call EXCEPT !.stage = "returned",
                          !.fileData = Some(convertExifToFileData(Val(call.exifData),
                                                                  call.zoneName))]
  /\ UNCHANGED <<queue, nextId, uploadDir, libraryDir, library, ncommits, faults, req, obs>>

\* getTimezoneFromOffset(offset) called on its own
GetTimezoneFromOffset ==
  /\ call.fn = "getTimezoneFromOffset"
  /\ call.stage = "called"
  /\ call' = [call EXCEPT !.stage = "returned",
                          !.zone = Some(getTimezoneFromOffset(call.offset, call.zoneName))]
  /\ UNCHANGED <<queue, nextId, uploadDir, libraryDir, library, ncommits, faults, req, obs>>

\* convertFileToExifData(fileData) called on its own: it throws when the file
\* is not on disk
ConvertFileToExifData ==
  /\ call.fn = "convertFileToExifData"
  /\ call.stage = "called"
  /\ call' = IF call.onDisk
             THEN [call EXCEPT !.stage = "returned",
                               !.exifData = Some(convertFileToExifData(call.fileData))]
             ELSE [call EXCEPT !.stage = "threw"]
  /\ UNCHANGED <<queue, nextId, uploadDir, libraryDir, library, ncommits, faults, req, obs>>

ExifNext ==
  \/ ReadExifProps
  \/ ConvertExifToFileData
  \/ GetTimezoneFromOffset
  \/ ConvertFileToExifData

ExifSpec == ExifInit /\ [][ExifNext]_vars

\* ------------------------------------------------- the copy step on its own
\* the queue row of a planned file
QueueRowOf(file) ==
  [path |-> file.path, thumbnailPath |-> ThumbPath(file.id), mimeType |-> file.mimeType,
   ext |-> file.ext, captureDateTime |-> file.captureDateTime,
   timezone |-> Some(file.timezone), latitude |-> Null, longitude |-> Null,
   altitude |-> Null, keywordIds |-> file.keywordIds]

\* moveQueuedFilesToLibrary has planned the batch and calls
\* copyFilesToDestination; any of the sources may be gone from the upload
\* directory by then
CopyInit ==
  /\ \E files \in PlanBatches, present \in SUBSET {FilePath(i) : i \in 1..MaxPlanFiles} :
        /\ present \subseteq {FilePath(i) : i \in 1..Len(files)}
        /\ queue = [id \in 1..Len(files) |-> QueueRowOf(files[id])]
        /\ nextId = Len(files) + 1
        /\ uploadDir = present
        /\ req = [r \in Req |->
                    [IdleReq EXCEPT
                       !.pc = "copy",
                       !.committableFiles = files,
                       !.remappedFilePaths =
                          remapFilePaths(files,
                            getFolderLabels(UNION {files[i].keywordIds : i \in 1..Len(files)}))]]
  /\ libraryDir = <<>>
  /\ library = <<>>
  /\ ncommits = 1
  /\ faults = 0
  /\ obs = [r \in Req |-> IdleObs]
  /\ call = NoCall

CopyNext ==
  \/ \E r \in Req : CopyCheck(r)
  \/ \E r \in Req : \E i \in 1..Len(req[r].remappedFilePaths) : CopyFile(r, i)
  \/ \E r \in Req : \E done \in SUBSET (1..Len(req[r].remappedFilePaths)) : CopyFail(r, done)

CopySpec == CopyInit /\ [][CopyNext]_vars

\* -------------------------------------------- the entry schemas on their own
\* the entries a request may submit for one file: every combination of the
\* fields the schemas read
SubmittedEntries ==
  {[id |-> id, captureDate |-> dt[1], captureTime |-> dt[2], timezone |-> tz,
    latitude |-> lat, longitude |-> lon, altitude |-> alt, keywordIds |-> kw] :
     id \in {1, 2},
     dt \in {<<Some(0), Some(10)>>, <<Null, Null>>, <<Some(0), Null>>, <<Some(5), Some(10)>>},
     tz \in {Null, Some("Etc/UTC"), Some("Mars/Base")},
     lat \in {Null, Some(0), Some(12)},
     lon \in {Null, Some(0), Some(77)},
     alt \in {Null, Some(0), Some(100)},
     kw \in SUBSET KeywordIds}

\* the ids of queuedFilesTable while the schemas run
StoredQueueIds == {1}

ValidationInit ==
  /\ StoreInit
  /\ \E schema \in {"QueuedFileUpdateSchema", "CommittableQueuedFileSchema"},
        entry \in SubmittedEntries :
        call = [fn |-> "parseAsync", schema |-> schema, entry |-> entry,
                queuedIds |-> StoredQueueIds, returned |-> FALSE, success |-> FALSE]

\* QueuedFileUpdateSchema.parseAsync(entry), as modifyFiles runs it on each entry
ParseUpdate ==
  /\ call.fn = "parseAsync"
  /\ call.schema = "QueuedFileUpdateSchema"
  /\ ~call.returned
  /\ call' = [call EXCEPT !.returned = TRUE,
                          !.success = QueuedFileUpdateSchema(call.entry, call.queuedIds)]
  /\ UNCHANGED <<queue, nextId, uploadDir, libraryDir, library, ncommits, faults, req, obs>>

\* CommittableQueuedFileSchema.parseAsync(entry), as commitFiles runs it on each entry
ParseCommittable ==
  /\ call.fn = "parseAsync"
  /\ call.schema = "CommittableQueuedFileSchema"
  /\ ~call.returned
  /\ call' = [call EXCEPT !.returned = TRUE,
                          !.success = CommittableQueuedFileSchema(call.entry, call.queuedIds)]
  /\ UNCHANGED <<queue, nextId, uploadDir, libraryDir, library, ncommits, faults, req, obs>>

ValidationNext == ParseUpdate \/ ParseCommittable

ValidationSpec == ValidationInit /\ [][ValidationNext]_vars

\* ---------------------------------------------------- the upload on its own
\* what getExifMetadata gives for an uploaded file: null, or a record whose
\* keywords are the names found in the file
UploadedFileShapes ==
  { [mimeType |-> "image/jpeg", ext |-> "jpg", exifData |-> Null],
    [mimeType |-> "image/jpeg", ext |-> "jpg",
     exifData |-> Some([captureDateTime |-> Some(10), timezone |-> Some("Etc/UTC"),
                        latitude |-> Null, longitude |-> Null, altitude |-> Null,
                        keywords |-> {}])],
    [mimeType |-> "image/jpeg", ext |-> "jpg",
     exifData |-> Some([captureDateTime |-> Some(10), timezone |-> Some("Etc/UTC"),
                        latitude |-> Null, longitude |-> Null, altitude |-> Null,
                        keywords |-> {"Birthday", "Wedding"}])],
    [mimeType |-> "video/mp4", ext |-> "mp4",
     exifData |-> Some([captureDateTime |-> Null, timezone |-> Some("Etc/UTC"),
                        latitude |-> Null, longitude |-> Null, altitude |-> Null,
                        keywords |-> {"Paris", "Holiday"}])] }

UploadBatches == UNION {[1..n -> UploadedFileShapes] : n \in 1..MaxUpload}

\* addKeywordsForFile: the keywords of keywordsTable whose name is in the list
validKeywords(keywords) == {k \in KeywordIds : KeywordRow(k).keyword \in keywords}

\* what deleteFilesFromDisk([uploadedFilePath, thumbnailPath]) unlinks for the
\* i-th file: a path still '' names nothing
UploadArtifacts(c, i) ==
  {FilePath(i)} \cup (IF IsNull(c.thumbnailPath[i]) THEN {} ELSE {Val(c.thumbnailPath[i])})

UploadInit ==
  /\ StoreInit
  /\ \E files \in UploadBatches :
        call = [fn |-> "uploadFiles", files |-> files,
                pc |-> [i \in 1..Len(files) |-> "write"],
                thumbnailPath |-> [i \in 1..Len(files) |-> Null],
                status |-> [i \in 1..Len(files) |-> "pending"],
                refused |-> {},
                result |-> [kind |-> "none", count |-> 0]]

\* processUploadedFile: uploadedFilePath = await writeFileToDisk(file)
WriteFileToDisk(i) ==
  /\ call.fn = "uploadFiles"
  /\ call.pc[i] = "write"
  /\ uploadDir' = uploadDir \cup {FilePath(i)}
  /\ call' = [call EXCEPT !.pc[i] = "thumbnail"]
  /\ UNCHANGED <<queue, nextId, libraryDir, library, ncommits, faults, req, obs>>

\* processUploadedFile: thumbnailPath = await generateFileThumbnail(...); when
\* it throws, thumbnailPath is still '' in the catch block
GenerateFileThumbnail(i, ok) ==
  /\ call.fn = "uploadFiles"
  /\ call.pc[i] = "thumbnail"
  /\ ok \/ faults < MaxFaults
  /\ faults' = IF ok THEN faults ELSE faults + 1
  /\ uploadDir' = IF ok THEN uploadDir \cup {ThumbPath(i)} ELSE uploadDir
  /\ call' = IF ok THEN [call EXCEPT !.pc[i] = "exif", !.thumbnailPath[i] = Some(ThumbPath(i))]
             ELSE [call EXCEPT !.pc[i] = "catch"]
  /\ UNCHANGED <<queue, nextId, libraryDir, library, ncommits, req, obs>>

\* processUploadedFile: exifData = await getExifMetadata(uploadedFilePath)
GetExifMetadata(i) ==
  /\ call.fn = "uploadFiles"
  /\ call.pc[i] = "exif"
  /\ call' = [call EXCEPT !.pc[i] = IF IsNull(call.files[i].exifData) THEN "discard" ELSE "add"]
  /\ UNCHANGED <<queue, nextId, uploadDir, libraryDir, library, ncommits, faults, req, obs>>

\* processUploadedFile, `if (!exifData)`: deleteFilesFromDisk, return false;
\* `failing` are the paths whose unlink is refused with an error other than
\* ENOENT, which deleteFilesFromDisk rethrows into the catch block
DiscardUpload(i, failing) ==
  /\ call.fn = "uploadFiles"
  /\ call.pc[i] = "discard"
  /\ failing \subseteq UploadArtifacts(call, i) \cap uploadDir
  /\ faults + Cardinality(failing \ call.refused) <= MaxFaults
  /\ faults' = faults + Cardinality(failing \ call.refused)
  /\ uploadDir' = uploadDir \ (UploadArtifacts(call, i) \ failing)
  /\ call' = IF failing = {}
             THEN [call EXCEPT !.pc[i] = "done", !.status[i] = "false"]
             ELSE [call EXCEPT !.pc[i] = "catch", !.refused = @ \cup failing]
  /\ UNCHANGED <<queue, nextId, libraryDir, library, ncommits, req, obs>>

\* processUploadedFile: database.queuedFiles.add({name, thumbnailPath, ...exifData})
\* in its transaction, return true; a refused insert throws into the catch block
QueuedFilesAdd(i, dbOk) ==
  /\ call.fn = "uploadFiles"
  /\ call.pc[i] = "add"
  /\ dbOk \/ faults < MaxFaults
  /\ faults' = IF dbOk THEN faults ELSE faults + 1
  /\ LET exifData == Val(call.files[i].exifData)
     IN queue' = IF ~dbOk THEN queue
                 ELSE [id \in DOMAIN queue \cup {nextId} |->
                         IF id = nextId
                         THEN [path |-> FilePath(i), thumbnailPath |-> Val(call.thumbnailPath[i]),
                               mimeType |-> call.files[i].mimeType, ext |-> call.files[i].ext,
                               captureDateTime |-> exifData.captureDateTime,
                               timezone |-> exifData.timezone, latitude |-> exifData.latitude,
                               longitude |-> exifData.longitude, altitude |-> exifData.altitude,
                               keywordIds |-> validKeywords(exifData.keywords)]
                         ELSE queue[id]]
  /\ nextId' = IF dbOk THEN nextId + 1 ELSE nextId
  /\ call' = IF dbOk THEN [call EXCEPT !.pc[i] = "done", !.status[i] = "true"]
             ELSE [call EXCEPT !.pc[i] = "catch"]
  /\ UNCHANGED <<uploadDir, libraryDir, library, ncommits, req, obs>>

\* processUploadedFile, the catch block: deleteFilesFromDisk, return false; a
\* refused unlink makes the promise of processUploadedFile reject
CatchUpload(i, failing) ==
  /\ call.fn = "uploadFiles"
  /\ call.pc[i] = "catch"
  /\ failing \subseteq UploadArtifacts(call, i) \cap uploadDir
  /\ faults + Cardinality(failing \ call.refused) <= MaxFaults
  /\ faults' = faults + Cardinality(failing \ call.refused)
  /\ uploadDir' = uploadDir \ (UploadArtifacts(call, i) \ failing)
  /\ call' = [call EXCEPT !.pc[i] = "done",
                          !.status[i] = IF failing = {} THEN "false" ELSE "rejected",
                          !.refused = @ \cup failing]
  /\ UNCHANGED <<queue, nextId, libraryDir, library, ncommits, req, obs>>

\* uploadFiles: await Promise.all(...) settles when every promise is fulfilled
\* or as soon as one rejects (the other files go on); the message counts the
\* true statuses, a rejection is answered with fail(500)
RespondUpload ==
  /\ call.fn = "uploadFiles"
  /\ call.result.kind = "none"
  /\ LET n == Len(call.files)
         rejected == \E i \in 1..n : call.status[i] = "rejected"
     IN /\ rejected \/ \A i \in 1..n : call.pc[i] = "done"
        /\ call' = [call EXCEPT !.result =
                      IF rejected THEN [kind |-> "fail500", count |-> 0]
                      ELSE [kind |-> "messages",
                            count |-> Cardinality({i \in 1..n : call.status[i] = "true"})]]
  /\ UNCHANGED <<queue, nextId, uploadDir, libraryDir, library, ncommits, faults, req, obs>>

UploadNext ==
  \/ \E i \in 1..MaxUpload : i <= Len(call.files) /\ WriteFileToDisk(i)
  \/ \E i \in 1..MaxUpload, ok \in BOOLEAN : i <= Len(call.files) /\ GenerateFileThumbnail(i, ok)
  \/ \E i \in 1..MaxUpload : i <= Len(call.files) /\ GetExifMetadata(i)
  \/ \E i \in 1..MaxUpload : \E failing \in SUBSET uploadDir :
        i <= Len(call.files) /\ DiscardUpload(i, failing)
  \/ \E i \in 1..MaxUpload, dbOk \in BOOLEAN : i <= Len(call.files) /\ QueuedFilesAdd(i, dbOk)
  \/ \E i \in 1..MaxUpload : \E failing \in SUBSET uploadDir :
        i <= Len(call.files) /\ CatchUpload(i, failing)
  \/ RespondUpload

UploadSpec == UploadInit /\ [][UploadNext]_vars

\* ------------------------------------------------------------- the properties
\* the ids a request listed in fileChanges and that passed its validation
TargetedIds(r) ==
  {req[r].parsedFileChanges[i].id : i \in 1..Len(req[r].parsedFileChanges)}

\* the ids of the files the request fetched to commit
CommittableIds(r) ==
  {req[r].committableFiles[i].id : i \in 1..Len(req[r].committableFiles)}

\* the rows the request inserted: the last obs[r].inserted rows of the table
InsertedRows(r) ==
  SubSeq(library, Len(library) - obs[r].inserted + 1, Len(library))

\* the inserted rows are one per fetched file, in order, each with the file's keywords
InsertedRowsMatchBatch(r) ==
  /\ obs[r].inserted = Len(req[r].committableFiles)
  /\ \A i \in 1..obs[r].inserted :
        /\ InsertedRows(r)[i].qid = req[r].committableFiles[i].id
        /\ InsertedRows(r)[i].keywords = req[r].committableFiles[i].keywords

\* C1: when the metadata write-back of a commit request fails, the request
\* copies no file into the library and inserts no LibraryEntry row, and it
\* answers with a failure.
C1_WriteBackFailureMovesNothing ==
  \A r \in Req : obs[r].wbFailed =>
     /\ req[r].copied = {}
     /\ obs[r].persist = "none"
     /\ obs[r].inserted = 0
     /\ obs[r].changed \cap {"library", "libraryDir"} = {}
     /\ req[r].result = "fail500"

C1_Witness ==
  \E r \in Req : /\ obs[r].wbFailed
                 /\ req[r].pc = "done"
                 /\ Len(req[r].committableFiles) = MaxFiles

\* C2: the steps of a commit come in a fixed order: rows are inserted only
\* after every planned copy was made, the queue rows and sources are deleted
\* only after the rows were persisted, and so each planned file's bytes are at
\* its source path or at its destination path.
C2_CommitStepOrder ==
  \A r \in Req :
     LET remaps == req[r].remappedFilePaths
     IN /\ obs[r].persist # "none" => req[r].copied = 1..Len(remaps)
        /\ obs[r].cleanupRan => obs[r].persist = "ok"
        /\ \A i \in 1..Len(remaps) :
              IF remaps[i].sourcePath \in uploadDir THEN TRUE
              ELSE /\ remaps[i].destinationPath \in DOMAIN libraryDir
                   /\ libraryDir[remaps[i].destinationPath] = BytesOf(remaps[i].sourcePath)

C2_Witness ==
  \E r \in Req : /\ req[r].pc = "done"
                 /\ obs[r].cleanupRan
                 /\ obs[r].persist = "ok"
                 /\ Len(req[r].remappedFilePaths) = MaxFiles
                 /\ \A i \in 1..Len(req[r].remappedFilePaths) :
                       req[r].remappedFilePaths[i].sourcePath \notin uploadDir

\* C3 (as stated): every file a commit request writes back, plans, copies or
\* converts into a LibraryEntry is one the request listed and validated.
C3_OnlyTargetedFilesCommitted ==
  \A r \in Req :
     /\ obs[r].writtenBack \subseteq TargetedIds(r)
     /\ \A i \in 1..Len(req[r].remappedFilePaths) :
           req[r].remappedFilePaths[i].fileId \in TargetedIds(r)
     /\ obs[r].inserted > 0 => CommittableIds(r) \subseteq TargetedIds(r)

\* C4: a submitted batch with at least one invalid entry is rejected with a
\* validation error, and the request updates no queue row, writes back, copies
\* and inserts nothing.
C4_InvalidEntryRejectsBatch ==
  \A r \in Req : obs[r].hadInvalid =>
     /\ obs[r].rejected
     /\ req[r].pc = "done"
     /\ req[r].result = "fail400"
     /\ obs[r].changed = {}
     /\ obs[r].writtenBack = {}
     /\ req[r].committableFiles = <<>>
     /\ req[r].copied = {}
     /\ obs[r].inserted = 0

C4_Witness ==
  \E r \in Req : /\ obs[r].hadInvalid
                 /\ obs[r].hadValid
                 /\ obs[r].rejected
                 /\ Cardinality(DOMAIN queue) = MaxFiles

C6_PersistAtomic ==
  \A r \in Req :
     /\ obs[r].persist = "none" => obs[r].inserted = 0
     /\ obs[r].persist = "failed" => obs[r].inserted = 0
     /\ obs[r].persist = "ok" => InsertedRowsMatchBatch(r)

C6_Witness ==
  \E r \in Req : /\ obs[r].persist = "failed"
                 /\ Len(req[r].committableFiles) = MaxFiles
                 /\ ~ViolatesNotNull(NewLibraryFile(req[r].committableFiles[1],
                                                    req[r].remappedFilePaths))

\* C7: when, after copy and persist succeeded, the cleanup cannot delete a
\* source file, the commit still answers success, the rows it inserted remain
\* and the source file is still on disk.
C7_CleanupFailureIsNotFatal ==
  \A r \in Req :
     (/\ obs[r].cleanupRan
      /\ \E i \in 1..Len(req[r].remappedFilePaths) :
            req[r].remappedFilePaths[i].sourcePath \in obs[r].unlinkFailed) =>
        /\ req[r].result = "ok"
        /\ InsertedRowsMatchBatch(r)
        /\ obs[r].unlinkFailed \subseteq uploadDir

C7_Witness ==
  \E r \in Req : /\ obs[r].cleanupRan
                 /\ req[r].pc = "done"
                 /\ Len(req[r].remappedFilePaths) = MaxFiles
                 /\ req[r].remappedFilePaths[1].sourcePath \in obs[r].unlinkFailed

\* C8 (as stated): cleanup is per file: when an artifact of one file cannot be
\* deleted, the queue row, source file and thumbnail of every other file of
\* the batch are deleted all the same.
C8_CleanupPerFileIndependent ==
  \A r \in Req : obs[r].cleanupRan =>
     \A i \in 1..Len(req[r].committableFiles) :
        LET file == req[r].committableFiles[i]
        IN {file.path, file.thumbnailPath} \cap obs[r].unlinkFailed = {} =>
              /\ file.id \notin DOMAIN queue
              /\ file.path \notin uploadDir
              /\ file.thumbnailPath \notin uploadDir

\* C9 (as stated): over any sequence of commits a queued file is converted
\* into at most one LibraryEntry row.
C9_AtMostOneLibraryEntryPerFile ==
  \A i, j \in 1..Len(library) : library[i].qid = library[j].qid => i = j

\* C10 (as stated): the destination planned for a file is never the path an
\* earlier commit gave to another file, so a copy never replaces a library file.
C10_DestinationsCollisionFree ==
  \A r \in Req : req[r].pc \in {"copy", "copying"} =>
     \A i \in 1..Len(req[r].remappedFilePaths), k \in 1..Len(library) :
        RowDestination(library[k]) = req[r].remappedFilePaths[i].destinationPath =>
           library[k].qid = req[r].remappedFilePaths[i].fileId

\* the planner has returned its plan
PlanReturned == call.fn = "remapFilePaths" /\ call.returned

\* the entry of the plan for the i-th file of the input
RemapOfFile(i) ==
  call.fileRemap[CHOOSE k \in 1..Len(call.fileRemap) : call.fileRemap[k].fileId = i]

\* the i-th and the j-th input file were put in the same date folder
SameDateGroup(i, j) ==
  RemapOfFile(i).destinationPath.subDir = RemapOfFile(j).destinationPath.subDir

\* C11: within one plan the destination paths of the files are pairwise
\* distinct (one entry per file), whatever the batch and the priority list.
C11_PlanDestinationsDistinct ==
  PlanReturned =>
     /\ Len(call.fileRemap) = Len(call.files)
     /\ \A i \in 1..Len(call.files) : \E k \in 1..Len(call.fileRemap) : call.fileRemap[k].fileId = i
     /\ \A i, j \in 1..Len(call.fileRemap) :
           call.fileRemap[i].destinationPath = call.fileRemap[j].destinationPath => i = j

C11_Witness ==
  /\ PlanReturned
  /\ Len(call.files) = MaxPlanFiles
  /\ \A i, j \in 1..Len(call.files) :
        /\ SameDateGroup(i, j)
        /\ RemapOfFile(i).destinationPath.tag = RemapOfFile(j).destinationPath.tag

\* C12: in a date group the files of one tag get the indices 0, 1, 2, ... in
\* input order, without gaps: a file's index is the number of earlier input
\* files of its group and tag; so every group starts each tag at 0 and two
\* files of the same instant and tag get consecutive indices.
C12_IndicesSequentialPerGroupAndTag ==
  PlanReturned =>
     \A i \in 1..Len(call.files) :
        RemapOfFile(i).destinationPath.index =
           Cardinality({m \in 1..(i - 1) :
                          /\ SameDateGroup(m, i)
                          /\ RemapOfFile(m).destinationPath.tag = RemapOfFile(i).destinationPath.tag})

C12_Witness ==
  /\ PlanReturned
  /\ Len(call.files) = MaxPlanFiles
  /\ \E i, j, k \in 1..Len(call.files) :
        /\ i < j
        /\ call.files[i].captureDateTime = call.files[j].captureDateTime
        /\ RemapOfFile(i).destinationPath.tag = RemapOfFile(j).destinationPath.tag
        /\ RemapOfFile(j).destinationPath.index = RemapOfFile(i).destinationPath.index + 1
        /\ ~SameDateGroup(i, k)
        /\ RemapOfFile(k).destinationPath.index = 0

\* the positions of the priority list whose label some member of file i's
\* date group carries
LabelsCarriedInGroup(i) ==
  {n \in 1..Len(call.sortedFolderLabels) :
     \E m \in 1..Len(call.files) :
        SameDateGroup(m, i) /\ call.sortedFolderLabels[n] \in call.files[m].keywords}

\* C13 (as stated): the suffix of a date group is the label of highest index in
\* the priority list that any member of the group carries, whatever else the
\* members carry; there is no suffix exactly when no member carries a label.
C13_GroupLabelIsHighestCarried ==
  PlanReturned =>
     \A i \in 1..Len(call.files) :
        LET carried == LabelsCarriedInGroup(i)
        IN RemapOfFile(i).destinationPath.label =
              IF carried = {} THEN <<>>
              ELSE <<call.sortedFolderLabels[CHOOSE n \in carried : \A o \in carried : o <= n]>>

\* the folder-label keywords of a category that a file carries
FolderLabelsOf(file, category) ==
  {KeywordRow(k).keyword :
     k \in {x \in file.keywordIds : KeywordRow(x).isFolderLabel /\ KeywordRow(x).category = category}}

\* C14 (as stated): with the priority list getFolderLabels returns, a date
\* group in which one file carries a Group folder label and another file
\* carries an Album folder label gets the Album keyword as its suffix.
C14_AlbumOutranksGroup ==
  (/\ PlanReturned
   /\ call.sortedFolderLabels =
         getFolderLabels(UNION {call.files[i].keywordIds : i \in 1..Len(call.files)})) =>
     \A i, j \in 1..Len(call.files) :
        (/\ i # j
         /\ SameDateGroup(i, j)
         /\ FolderLabelsOf(call.files[i], "Group") # {}
         /\ FolderLabelsOf(call.files[j], "Album") # {}) =>
           \E album \in FolderLabelsOf(call.files[j], "Album") :
              RemapOfFile(i).destinationPath.label = <<album>>

\* C15 (as stated): a file's date folder and filename date are its capture
\* instant rendered in the file's own stored zone, so two files share a date
\* group exactly when their local dates in their own zones are equal.
C15_DateFolderInFileZone ==
  PlanReturned =>
     /\ \A i \in 1..Len(call.files) :
           LET ownDay == <<LocalDay(Val(call.files[i].captureDateTime), call.files[i].timezone)>>
           IN /\ RemapOfFile(i).destinationPath.subDir = ownDay
              /\ RemapOfFile(i).destinationPath.date = ownDay
     /\ \A i, j \in 1..Len(call.files) :
           SameDateGroup(i, j) <=>
              LocalDay(Val(call.files[i].captureDateTime), call.files[i].timezone)
                = LocalDay(Val(call.files[j].captureDateTime), call.files[j].timezone)

\* ---- metadata extraction
ExifReturned == call.fn = "getExifMetadata" /\ call.stage = "returned"

\* the date-time properties present in a raw bag, by position in ExifDateTimeProps
PresentDates(raw) ==
  {i \in 1..Len(ExifDateTimeProps) : ~IsNull(raw.dates[ExifDateTimeProps[i]])}

RawDateAt(raw, i) == Val(raw.dates[ExifDateTimeProps[i]])

\* a value is well-formed for a property when it has the form the property is
\* documented to have and denotes a date and time of the calendar
ExpectedForm(prop) ==
  IF prop \in {"DateTimeCreated", "Quicktime:CreationDate", "Quicktime:DateTimeOriginal"}
  THEN "offset" ELSE "plain"

WellFormedDate(raw, i) ==
  /\ RawDateAt(raw, i).form = ExpectedForm(ExifDateTimeProps[i])
  /\ RawDateAt(raw, i).valid

\* the offset of the first well-formed offset property of a raw bag, if any
RawCaptureOffset(raw) ==
  LET wellFormed == {i \in 1..Len(ExifOffsetTimeProps) :
                       /\ ~IsNull(raw.offsets[ExifOffsetTimeProps[i]])
                       /\ Val(raw.offsets[ExifOffsetTimeProps[i]]).wellFormed}
  IN IF wellFormed = {} THEN Null
     ELSE Some(Val(raw.offsets[ExifOffsetTimeProps[
                 CHOOSE i \in wellFormed : \A j \in wellFormed : i <= j]]).hours)

\* the instant the i-th date-time property of a raw bag denotes: for an image
\* and for the Quicktime properties at the bag's offset, else at the value's
\* own offset, else in the zone of the process; for the other properties of a
\* video as UTC; null when the value is no date and time of the calendar
CaptureTimeGivenBy(raw, i, zoneName) ==
  LET date == RawDateAt(raw, i)
      prop == ExifDateTimeProps[i]
      bagOffset == RawCaptureOffset(raw)
      hours == IF IsImage(raw.MIMEType)
                  \/ prop \in {"Quicktime:CreationDate", "Quicktime:DateTimeOriginal"}
               THEN IF ~IsNull(bagOffset) THEN Val(bagOffset)
                    ELSE IF date.form = "offset" THEN date.off
                    ELSE ZoneOffset(zoneName)
               ELSE 0
  IN IF date.form = "other" \/ ~date.valid THEN Null ELSE Some(date.local - hours)

\* C16 (as stated): whenever the raw bag holds both DateTimeCreated and
\* CreateDate, the capture time of the record is the one DateTimeCreated's
\* value gives.
C16_DateTimeCreatedAlwaysWins ==
  (ExifReturned /\ {1, 7} \subseteq PresentDates(call.raw))
    => Val(call.fileData).captureDateTime = CaptureTimeGivenBy(call.raw, 1, call.zoneName)

\* C16 (amended): whenever the raw bag holds CreateDate and a DateTimeCreated
\* value that is a date-time with offset and not all zeros, the capture time of
\* the record is the one DateTimeCreated's value gives, never CreateDate's.
C16_WellFormedDateTimeCreatedWins ==
  (/\ ExifReturned
   /\ {1, 7} \subseteq PresentDates(call.raw)
   /\ IF 1 \in PresentDates(call.raw)
      THEN RawDateAt(call.raw, 1).form = "offset" /\ ~RawDateAt(call.raw, 1).zero
      ELSE FALSE)
    => Val(call.fileData).captureDateTime = CaptureTimeGivenBy(call.raw, 1, call.zoneName)

C16_Witness ==
  /\ ExifReturned
  /\ {1, 7} \subseteq PresentDates(call.raw)
  /\ IF {1, 7} \subseteq PresentDates(call.raw)
     THEN /\ WellFormedDate(call.raw, 1)
          /\ WellFormedDate(call.raw, 7)
          /\ IsImage(call.raw.MIMEType)
          /\ IsNull(RawCaptureOffset(call.raw))
          /\ Val(call.fileData).captureDateTime
               = Some(RawDateAt(call.raw, 1).local - RawDateAt(call.raw, 1).off)
     ELSE FALSE

\* C17: when the highest-priority date-time property present in the bag is
\* malformed and a lower-priority one is present and well-formed, the capture
\* time is the one given by the first present well-formed property.
C17_MalformedCandidateFallsThrough ==
  ExifReturned =>
    LET present == PresentDates(call.raw)
        wellFormed == {i \in present : WellFormedDate(call.raw, i)}
    IN IF present # {} /\ wellFormed # {}
       THEN LET first == CHOOSE i \in present : \A j \in present : i <= j
                next == CHOOSE i \in wellFormed : \A j \in wellFormed : i <= j
            IN first \notin wellFormed
                 => Val(call.fileData).captureDateTime
                      = CaptureTimeGivenBy(call.raw, next, call.zoneName)
       ELSE TRUE

\* a raw bag without its all-zero date-time values
WithoutZeroDates(raw) ==
  [raw EXCEPT !.dates = [prop \in DOMAIN raw.dates |->
                           IF IsNull(raw.dates[prop]) THEN Null
                           ELSE IF Val(raw.dates[prop]).zero THEN Null
                           ELSE raw.dates[prop]]]

\* C18: an all-zero date-time value, with or without offset, under any
\* date-time property is treated as absent: the capture time of the record is
\* the one of the same bag without its all-zero values.
C18_AllZeroDateIsAbsent ==
  ExifReturned =>
    Val(call.fileData).captureDateTime
      = convertExifToFileData(ExifDataSchema(WithoutZeroDates(call.raw)).data,
                              call.zoneName).captureDateTime

\* ---- the timezone resolver
TimezoneReturned == call.fn = "getTimezoneFromOffset" /\ call.stage = "returned"

\* the table rows with a given zone name / with a given standard offset
RowsOfZone(zoneName) == {i \in 1..Len(ianaTz) : ianaTz[i].zone = zoneName}
RowsOfOffset(hours) == {i \in 1..Len(ianaTz) : ianaTz[i].std = hours}

\* C19: the resolver returns the local zone when no offset is given or the
\* local zone's standard offset is the offset; otherwise the first zone of the
\* table with that standard offset, and the local zone when there is none; so
\* when a table zone matches, the returned zone has the given standard offset.
C19_TimezoneResolver ==
  TimezoneReturned =>
    LET zone == Val(call.zone)
    IN IF IsNull(call.offset) THEN zone = call.zoneName
       ELSE LET matches == RowsOfOffset(Val(call.offset))
            IN /\ (\E i \in RowsOfZone(call.zoneName) : i \in matches) => zone = call.zoneName
               /\ (matches = {}) => zone = call.zoneName
               /\ (matches # {} /\ RowsOfZone(call.zoneName) \cap matches = {})
                    => \E i \in matches : /\ \A j \in matches : i <= j
                                          /\ zone = ianaTz[i].zone
               /\ (matches # {}) => \E i \in matches : ianaTz[i].zone = zone

C19_Witness ==
  /\ TimezoneReturned
  /\ IF TimezoneReturned /\ ~IsNull(call.offset)
     THEN /\ Cardinality(RowsOfOffset(Val(call.offset))) > 1
          /\ RowsOfZone(call.zoneName) # {}
          /\ RowsOfZone(call.zoneName) \cap RowsOfOffset(Val(call.offset)) = {}
          /\ Val(call.zone) = "Asia/Tokyo"
     ELSE FALSE

\* C20: in every record built from extracted metadata the altitude is absent
\* whenever the latitude is absent.
C20_AltitudeNeedsLatitude ==
  ExifReturned =>
    (IsNull(Val(call.fileData).latitude) => IsNull(Val(call.fileData).altitude))

\* ---- the entry schemas
CommitParsed ==
  call.fn = "parseAsync" /\ call.schema = "CommittableQueuedFileSchema" /\ call.returned

UpdateParsed ==
  call.fn = "parseAsync" /\ call.schema = "QueuedFileUpdateSchema" /\ call.returned

\* the keywords of a category among the ids of an entry
KeywordsOfCategory(ids, category) ==
  {k \in ids \cap KeywordIds : KeywordRow(k).category = category}

\* C21: commit validation rejects an entry with exactly one of latitude and
\* longitude, and an entry with an altitude but not both coordinates; an
\* accepted entry has both coordinates or none, and an altitude only with both.
C21_GpsPairingEnforced ==
  CommitParsed =>
    LET e == call.entry
    IN /\ (IsNull(e.latitude) # IsNull(e.longitude)) => ~call.success
       /\ (~IsNull(e.altitude) /\ (IsNull(e.latitude) \/ IsNull(e.longitude))) => ~call.success
       /\ call.success =>
            /\ IsNull(e.latitude) = IsNull(e.longitude)
            /\ ~IsNull(e.altitude) => (~IsNull(e.latitude) /\ ~IsNull(e.longitude))

\* latitude 12 without longitude is the only fault of the entry
C21_Witness ==
  /\ CommitParsed
  /\ call.entry.latitude = Some(12)
  /\ IsNull(call.entry.longitude)
  /\ IsNull(call.entry.altitude)
  /\ call.entry.id \in call.queuedIds
  /\ call.entry.timezone = Some("Etc/UTC")
  /\ call.entry.captureDate = Some(0) /\ call.entry.captureTime = Some(10)
  /\ call.entry.keywordIds = {3}
  /\ ~call.success
  /\ CommittableQueuedFileSchema([call.entry EXCEPT !.longitude = Some(77)], call.queuedIds)

\* C22: an entry accepted by commit validation has its coordinates set when a
\* Location keyword is attached, and exactly one Location keyword attached
\* when its coordinates are set.
C22_LocationLinkage ==
  (CommitParsed /\ call.success) =>
    LET e == call.entry
        locations == KeywordsOfCategory(e.keywordIds, "Location")
    IN /\ locations # {} => (~IsNull(e.latitude) /\ ~IsNull(e.longitude))
       /\ (~IsNull(e.latitude) /\ ~IsNull(e.longitude)) => Cardinality(locations) = 1

C22_Witness ==
  /\ CommitParsed
  /\ call.success
  /\ call.entry.latitude = Some(12)
  /\ call.entry.longitude = Some(77)
  /\ call.entry.keywordIds = {1, 2, 6}

\* ---- the upload
\* C23: a QueueEntry has at most one keyword of category Album and at most one
\* of category Location, whatever was uploaded.
C23_AtMostOneAlbumOrLocation ==
  \A id \in DOMAIN queue :
     /\ Cardinality(KeywordsOfCategory(queue[id].keywordIds, "Album")) <= 1
     /\ Cardinality(KeywordsOfCategory(queue[id].keywordIds, "Location")) <= 1

\* the i-th file of the upload batch has a QueueEntry
HasQueueEntry(i) == \E id \in DOMAIN queue : queue[id].path = FilePath(i)

UploadSettled ==
  call.fn = "uploadFiles" /\ \A i \in 1..Len(call.files) : call.pc[i] = "done"

\* C24: a file whose extraction fails ends without QueueEntry, stored file and
\* thumbnail; the request never fails as a whole and reports the number of
\* files queued; after the batch every file has its QueueEntry, stored file
\* and thumbnail, or none of the three.
C24_FailedExtractionIsolated ==
  call.fn = "uploadFiles" =>
    /\ \A i \in 1..Len(call.files) :
          (call.pc[i] = "done" /\ IsNull(call.files[i].exifData)) =>
             /\ ~HasQueueEntry(i)
             /\ FilePath(i) \notin uploadDir
             /\ ThumbPath(i) \notin uploadDir
    /\ call.result.kind # "fail500"
    /\ UploadSettled =>
          /\ \A i \in 1..Len(call.files) :
                \/ HasQueueEntry(i) /\ FilePath(i) \in uploadDir /\ ThumbPath(i) \in uploadDir
                \/ ~HasQueueEntry(i) /\ FilePath(i) \notin uploadDir /\ ThumbPath(i) \notin uploadDir
          /\ call.result.kind = "messages" =>
                call.result.count = Cardinality({i \in 1..Len(call.files) : HasQueueEntry(i)})

\* ---- interpretation of the winning date-time value
\* the winning candidates of the parsed exiftool output: the first date-time
\* property and the first offset property the schema left defined (0: none)
WinningDate(exifData) ==
  LET defined == {i \in 1..Len(ExifDateTimeProps) :
                    ~IsNull(exifData.dates[ExifDateTimeProps[i]])}
  IN IF defined = {} THEN 0 ELSE CHOOSE i \in defined : \A j \in defined : i <= j

WinningOffset(exifData) ==
  LET defined == {i \in 1..Len(ExifOffsetTimeProps) :
                    ~IsNull(exifData.offsets[ExifOffsetTimeProps[i]])}
  IN IF defined = {} THEN Null
     ELSE exifData.offsets[ExifOffsetTimeProps[CHOOSE i \in defined : \A j \in defined : i <= j]]

\* C25: when the winning date-time value denotes a date and time, then for an
\* image or a Quicktime-prefixed winning field the capture instant is its local
\* time at the winning offset property when there is one, and for a video with
\* another winning field it is its local time read as UTC, whatever the offset
\* properties are.
C25_WinningValueInterpretation ==
  ExifReturned =>
    LET exifData == Val(call.exifData)
        w == WinningDate(exifData)
    IN IF w = 0 THEN TRUE
       ELSE LET value == Val(exifData.dates[ExifDateTimeProps[w]])
                offset == WinningOffset(exifData)
                localTime == \/ IsImage(exifData.MIMEType)
                             \/ ExifDateTimeProps[w] \in {"Quicktime:CreationDate",
                                                          "Quicktime:DateTimeOriginal"}
            IN value.valid =>
                 /\ (localTime /\ ~IsNull(offset)) =>
                       IF IsNull(offset) THEN FALSE
                       ELSE Val(call.fileData).captureDateTime = Some(value.local - Val(offset))
                 /\ ~localTime => Val(call.fileData).captureDateTime = Some(value.local)

\* a video whose winning field is CreateDate, with an OffsetTime of +09:00 in
\* the bag, is read as UTC
C25_Witness ==
  /\ ExifReturned
  /\ ~IsImage(call.raw.MIMEType)
  /\ IF ExifReturned
     THEN /\ WinningDate(Val(call.exifData)) = 7
          /\ WinningOffset(Val(call.exifData)) = Some(9)
          /\ Val(call.fileData).captureDateTime = Some(RawDateAt(call.raw, 7).local)
     ELSE FALSE

\* ---- the write-back document
DocumentReturned == call.fn = "convertFileToExifData" /\ call.stage = "returned"

\* C26: for a file with latitude and longitude set, 0 included, the document
\* carries GPSLatitudeRef N for latitude >= 0 else S and GPSLongitudeRef E for
\* longitude >= 0 else W; with an altitude set too, 0 included, it carries
\* GPSAltitudeRef 0 for altitude >= 0 else 1.
C26_GpsReferenceFields ==
  DocumentReturned =>
    LET file == call.fileData
        doc == Val(call.exifData)
    IN IF IsNull(file.latitude) \/ IsNull(file.longitude) THEN TRUE
       ELSE /\ doc.GPSLatitudeRef = (IF Val(file.latitude) >= 0 THEN Some("N") ELSE Some("S"))
            /\ doc.GPSLongitudeRef = (IF Val(file.longitude) >= 0 THEN Some("E") ELSE Some("W"))
            /\ IF IsNull(file.altitude) THEN TRUE
               ELSE doc.GPSAltitudeRef = (IF Val(file.altitude) >= 0 THEN Some(0) ELSE Some(1))

\* ---- the copy step
\* C27: when a planned source is missing as the copy step starts, the step
\* fails, no destination directory is created and no file of the batch is
\* copied.
C27_CopyVerifiesSourcesFirst ==
  \A r \in Req :
     obs[r].copyMissing =>
        /\ req[r].pc = "done" /\ req[r].result = "fail500"
        /\ obs[r].madeDirs = {}
        /\ req[r].copied = {}
        /\ "libraryDir" \notin obs[r].changed
        /\ libraryDir = <<>>

\* one source of a batch of several is missing, the others are on disk
C27_Witness ==
  \E r \in Req :
     /\ obs[r].copyMissing
     /\ req[r].pc = "done"
     /\ \E i, j \in 1..Len(req[r].remappedFilePaths) :
           /\ req[r].remappedFilePaths[i].sourcePath \notin uploadDir
           /\ req[r].remappedFilePaths[j].sourcePath \in uploadDir

\* the offset the winning date-time value was parsed with, when it came from
\* an offset property or from the value itself (null otherwise)
ExplicitOffset(exifData) ==
  LET w == WinningDate(exifData)
  IN IF w = 0 THEN Null
     ELSE LET value == Val(exifData.dates[ExifDateTimeProps[w]])
              localTime == \/ IsImage(exifData.MIMEType)
                           \/ ExifDateTimeProps[w] \in {"Quicktime:CreationDate",
                                                        "Quicktime:DateTimeOriginal"}
          IN IF ~localTime \/ ~value.valid THEN Null
             ELSE IF ~IsNull(WinningOffset(exifData)) THEN WinningOffset(exifData)
             ELSE IF value.form = "offset" THEN Some(value.off)
             ELSE Null

\* C28: when the capture instant was parsed with an explicit offset, from an
\* offset property or from the winning value, and a zone of the table has that
\* standard offset, the timezone of the record has that standard offset.
C28_TimezoneAgreesWithOffset ==
  ExifReturned =>
    LET o == ExplicitOffset(Val(call.exifData))
    IN IF IsNull(o) THEN TRUE
       ELSE RowsOfOffset(Val(o)) # {}
              => \E i \in RowsOfOffset(Val(o)) : ianaTz[i].zone = Val(call.fileData).timezone

\* ---------------------------------------------------------------------------
\* The login page: registerPassword and login behind the handle hook
\* ---------------------------------------------------------------------------

\* bound: the requests one behaviour sends to the login page
MaxRequests == 3

\* the passwords a form submits; "" is rejected by PasswordSchema
FormPasswords == {"", "hunter2", "letmein"}

\* z.string().min(1)
PasswordSchema(password) == password # ""

\* bcrypt.hash: the hash depends on the password and on a fresh salt
bcryptHash(password, salt) == [password |-> password, salt |-> salt]

\* bcrypt.compare
bcryptCompare(password, passwordHash) == passwordHash.password = password

\* the response the previous request got
NoResponse == [action |-> "none", status |-> 0, before |-> Null, tokenIssued |-> FALSE]

\* an empty authTable, a browser without cookie, no request in flight
AuthInit ==
  /\ StoreInit
  /\ call = [fn |-> "auth", authTable |-> Null, cookie |-> FALSE, pc |-> "idle",
             password |-> "", nrequests |-> 0, response |-> NoResponse]

\* handle: a signed-in browser is sent away from /login, a browser that is
\* not signed in is sent to /login, every other request reaches its action
Handle(pathname, action, password) ==
  /\ call.fn = "auth" /\ call.pc = "idle" /\ call.nrequests < MaxRequests
  /\ LET jwtVerified == call.cookie
         redirected == \/ jwtVerified /\ pathname = "/login"
                       \/ ~jwtVerified /\ pathname # "/login"
     IN call' = [call EXCEPT
                   !.nrequests = @ + 1,
                   !.password = password,
                   !.pc = IF redirected \/ pathname # "/login" THEN "idle" ELSE action,
                   !.response = [action |-> IF pathname = "/login" THEN action ELSE "page",
                                 status |-> IF redirected THEN 307 ELSE 200,
                                 before |-> call.authTable, tokenIssued |-> FALSE]]
  /\ UNCHANGED <<queue, nextId, uploadDir, libraryDir, library, ncommits, faults, req, obs>>

\* actions.registerPassword: the fail(400) of the registered case is built and
\* dropped, the handler goes on to parse, hash, store and sign
registerPassword(salt, outcome) ==
  /\ call.fn = "auth" /\ call.pc = "registerPassword"
  /\ LET currentPassword == call.authTable
         parsed == PasswordSchema(call.password)
         passwordHash == bcryptHash(call.password, salt)
     IN call' =
          IF outcome = "readThrows"
            THEN [call EXCEPT !.pc = "idle", !.response.status = 500]
          ELSE IF ~parsed
            THEN [call EXCEPT !.pc = "idle", !.response.status = 400]
          ELSE IF outcome = "writeThrows"
            THEN [call EXCEPT !.pc = "idle", !.response.status = 500]
          ELSE [call EXCEPT !.pc = "idle", !.authTable = Some(passwordHash),
                            !.cookie = TRUE,
                            !.response.status = 200, !.response.tokenIssued = TRUE]
  /\ UNCHANGED <<queue, nextId, uploadDir, libraryDir, library, ncommits, faults, req, obs>>

\* actions.login
login(dbOk) ==
  /\ call.fn = "auth" /\ call.pc = "login"
  /\ LET parsed == PasswordSchema(call.password)
         passwordHash == call.authTable
     IN call' =
          IF ~parsed
            THEN [call EXCEPT !.pc = "idle", !.response.status = 400]
          ELSE IF ~dbOk
            THEN [call EXCEPT !.pc = "idle", !.response.status = 500]
          ELSE IF IsNull(passwordHash)
            THEN [call EXCEPT !.pc = "idle", !.response.status = 400]
          ELSE IF bcryptCompare(call.password, Val(passwordHash))
            THEN [call EXCEPT !.pc = "idle", !.cookie = TRUE,
                              !.response.status = 200, !.response.tokenIssued = TRUE]
          ELSE [call EXCEPT !.pc = "idle", !.response.status = 400]
  /\ UNCHANGED <<queue, nextId, uploadDir, libraryDir, library, ncommits, faults, req, obs>>

\* the auth-token cookie lasts one day, and a restart of the server draws a
\* new JWT secret: either way the browser is signed out
TokenExpires ==
  /\ call.fn = "auth" /\ call.pc = "idle" /\ call.cookie
  /\ call' = [call EXCEPT !.cookie = FALSE]
  /\ UNCHANGED <<queue, nextId, uploadDir, libraryDir, library, ncommits, faults, req, obs>>

AuthNext ==
  \/ \E pathname \in {"/login", "/"}, action \in {"registerPassword", "login"},
        password \in FormPasswords : Handle(pathname, action, password)
  \/ \E salt \in {1, 2}, outcome \in {"ok", "readThrows", "writeThrows"} :
        registerPassword(salt, outcome)
  \/ \E dbOk \in BOOLEAN : login(dbOk)
  \/ TokenExpires

AuthSpec == AuthInit /\ [][AuthNext]_vars

\* a registerPassword request has been answered
RegisterAnswered ==
  /\ call.fn = "auth" /\ call.pc = "idle"
  /\ call.response.action = "registerPassword" /\ call.response.status # 307

\* C30: a register request made while a password exists fails, leaves the
\* stored password hash unchanged and issues no auth token.
C30_RegisterNeverChangesPassword ==
  (RegisterAnswered /\ ~IsNull(call.response.before))
    => /\ call.response.status # 200
       /\ call.authTable = call.response.before
       /\ ~call.response.tokenIssued

\* ---------------------------------------------------------------------------
\* Two commit requests in flight together
\* ---------------------------------------------------------------------------

\* the server runs the handlers of two requests on one event loop: each runs
\* up to its next await, then the other may run
Handlers == {1, 2}

\* the fileChanges lists of the two requests: no entry or one entry
ShortChangeLists == {l \in FileChangeLists : Len(l) <= 1}

ConcurrentInit ==
  /\ queue = <<>>
  /\ nextId = 1
  /\ uploadDir = {}
  /\ libraryDir = <<>>
  /\ library = <<>>
  /\ ncommits = 0
  /\ faults = 0
  /\ req = [r \in Handlers |-> IdleReq]
  /\ obs = [r \in Handlers |-> IdleObs]
  /\ call = NoCall

\* uploads and the steps of both handlers, no refusal by the file system, the
\* tool or the store other than those the interleaving itself brings about
ConcurrentNext ==
  \/ \E exifData \in UploadChoices : UploadFile(exifData)
  \/ \E r \in Handlers, fc \in ShortChangeLists, df \in {{}, {1}} :
        CommitAccepted(r, fc, df)
  \/ \E r \in Handlers, fc \in ShortChangeLists, df \in {{}, {1}} :
        CommitRejected(r, fc, df)
  \/ \E r \in Handlers : DeleteRequested(r, {})
  \/ \E r \in Handlers : UpdateAndGet(r)
  \/ \E r \in Handlers : UpdateThrows(r)
  \/ \E r \in Handlers : WriteBack(r, TRUE)
  \/ \E r \in Handlers : Plan(r)
  \/ \E r \in Handlers : CopyCheck(r)
  \/ \E r \in Handlers : \E i \in 1..Len(req[r].remappedFilePaths) : CopyFile(r, i)
  \/ \E r \in Handlers : Persist(r, 0)
  \/ \E r \in Handlers : Cleanup(r, {})
  \/ \E r \in Handlers : Return(r)

ConcurrentSpec == ConcurrentInit /\ [][ConcurrentNext]_vars

\* both handlers are between the receipt of their request and its response
BothInFlight == \A r \in Handlers : req[r].pc # "idle"

\* C29: while two commit requests are in flight together, no queued file has
\* two LibraryEntry rows and the destination of every LibraryEntry row holds
\* the bytes of the file the row was made from.
C29_ConcurrentCommitsKeepLibrarySound ==
  BothInFlight =>
    /\ \A i, j \in 1..Len(library) : library[i].qid = library[j].qid => i = j
    /\ \A k \in 1..Len(library) :
          RowDestination(library[k]) \in DOMAIN libraryDir
            => libraryDir[RowDestination(library[k])] = BytesOf(FilePath(library[k].qid))

====
